---- MODULE Spec2Model ----
(***************************************************************************)
(* A model of yarn-plugin-licenses: the dependency collector               *)
(* (collectExternalLocatorHashes), the bounded-fanout mapper               *)
(* (mapWithConcurrency) and their caller collectLicenseEntries.            *)
(***************************************************************************)
EXTENDS Integers, Sequences, FiniteSets, TLC

(***************************************************************************)
(* Bounds of the model.                                                    *)
(***************************************************************************)
\* External packages with a record in the package store: npm 1..NumExternals.
NumExternals == 3
\* Longest items list handed to mapWithConcurrency.
MaxItems == 3
\* Largest concurrency handed to mapWithConcurrency (in the generic call).
MaxConcurrency == 3
\* Longest seed list handed to the collector.
MaxSeeds == 2
\* The project's dependency edges are any subset of the first MaxEdges
\* entries of EdgeUniverse below.
MaxEdges == 9
\* The history counters stop counting here.
MaxCount == 3
\* Most leaves of a license expression the auditor is handed.
MaxLeaves == 3
\* Longest arbitrary license string the auditor is handed, in symbols.
MaxLicenseLen == 4
\* Most symbols of the --allow values handed to parseAllowValues together.
MaxAllowSymbols == 6
\* Most git+ prefixes written in front of a repository string.
MaxGitPlus == 1
\* Most times normalizeRepositoryUrl is applied in a row.
MaxPasses == 2
\* Most entries collectLicenseEntries hands to the audit command.
MaxEntries == 3

VARIABLES
  \* ---- the project snapshot and the options of one collector call
  edges,                  \* the dependency edges of the snapshot
  workspaces,             \* the seed list (CollectOptions.workspaces)
  includeDev,
  recursiveWorkspaces,
  recursiveNpm,
  \* ---- locals of collectExternalLocatorHashes
  queue,
  external,
  visitedWorkspaceCwds,
  visitedLocatorHashes,
  node,                   \* the item taken by queue.shift()
  descriptors,            \* what the running for-loop has still to visit
  pc,                     \* "loop" | "workspace" | "locator" | "done"
  \* ---- history of the call (not program state)
  expansions,             \* how often each node's dependency list was expanded
  depths,                 \* how many edges from a seed the node and each queue item were met
  lastOp                  \* what the last step did

VARIABLES
  \* ---- mapWithConcurrency(items, concurrency, mapper)
  items,
  concurrency,            \* in halves: 3 stands for 1.5
  nextIndex,
  result,
  workers,                \* the runWorker() calls: where each one stands
  promise,                \* the promise mapWithConcurrency returned
  error,                  \* what it was rejected with
  \* ---- collectLicenseEntries, which awaits it
  entries,                \* what collectLicenseEntries returned
  callerPc,               \* "awaiting" | "returned" | "threw"
  \* ---- history of the call (not program state)
  claimCount,             \* how often each index was taken from the cursor
  mapperCalls,            \* how often the mapper was invoked for each index
  failures,               \* the indexes whose mapper call failed, in order
  log                     \* the mapper calls made, returned and thrown, in order

mapperVars ==
  <<items, concurrency, nextIndex, result, workers, promise, error,
    entries, callerPc, claimCount, mapperCalls, failures, log>>

collectorVars ==
  <<edges, workspaces, includeDev, recursiveWorkspaces, recursiveNpm,
    queue, external, visitedWorkspaceCwds, visitedLocatorHashes,
    node, descriptors, pc, expansions, depths, lastOp>>

VARIABLES
  \* ---- auditLicenseEntries(entries, allowRules)
  collected,              \* the entries handed to the auditor
  allowRules,
  auditEntries,           \* what auditLicenseEntries returned
  expression,             \* the expression collected[1].licenseType was written from
  \* ---- parseAllowValues(values)
  values,
  unique,                 \* what parseAllowValues returned
  \* ---- normalizeRepositoryUrl(input)
  input,
  normalizedUrl,          \* what normalizeRepositoryUrl returned
  passes,                 \* how often the value went through the function
  \* ---- LicensesAuditCommand.execute() and LicensesListCommand.execute()
  command,                \* "audit" | "list" ("none": no command runs)
  currentWorkspace,       \* the workspace Project.find gave (0: null)
  includeRootDeps,        \* this.includeRootDeps
  seedWorkspaces,         \* the workspaces handed to collectLicenseEntries
  calls,                  \* collectLicenseEntries and auditLicenseEntries, as invoked
  thrown,                 \* the error execute() failed with ("": none)
  stderr,                 \* what was written to this.context.stderr
  allWorkspaces,          \* this.allWorkspaces
  workspaceInputs,        \* this.workspaces
  allow,                  \* this.allow
  json,                   \* this.json
  outputOption,           \* this.output
  output,                 \* what was written to stdout or to the output file
  exitCode,               \* what execute() returned
  commandPc               \* "idle" | "start" | "selecting" | "collecting" | "auditing" |
                          \* "rendering" | "returned" | "threw"

auditVars == <<collected, allowRules, auditEntries, expression>>
allowVars == <<values, unique>>
urlVars == <<input, normalizedUrl, passes>>
optionVars ==
  <<command, currentWorkspace, includeRootDeps, allWorkspaces, workspaceInputs, allow, json,
    outputOption>>
commandVars ==
  <<optionVars, seedWorkspaces, calls, thrown, stderr, output, exitCode, commandPc>>
libVars == <<auditVars, allowVars, urlVars, commandVars>>

vars == <<collectorVars, mapperVars, libVars>>

(***************************************************************************)
(* The project snapshot.                                                   *)
(***************************************************************************)
\* Locator hashes.  A workspace's locator and its cwd are different keys.
WorkspaceLocator(w) == <<"workspace", w>>
ExternalLocator(e) == <<"npm", e>>
\* A locator the resolution table names but the package store has no record of.
PrunedLocator == <<"pruned", 0>>
NoLocator == <<"none", 0>>

Cwd(w) == <<"cwd", w>>

\* Descriptor hashes: one descriptor per locator, and one that does not resolve.
Descriptor(l) == <<"descriptor", l[1], l[2]>>
UnresolvedDescriptor == <<"descriptor", "unmet", 0>>

\* Every edge a snapshot may hold, in manifest order.  from is a workspace
\* (its manifest's dependencies / devDependencies) or an external locator
\* (its package record's dependencies).
W(w) == <<"manifest", w>>
Edge(f, k, d) == [from |-> f, kind |-> k, descriptor |-> d]
EdgeUniverse ==
  << Edge(W(1), "dependencies", UnresolvedDescriptor),
     Edge(W(1), "dependencies", Descriptor(ExternalLocator(1))),
     Edge(W(1), "dependencies", Descriptor(WorkspaceLocator(2))),
     Edge(W(2), "devDependencies", Descriptor(ExternalLocator(2))),
     Edge(ExternalLocator(1), "dependencies", Descriptor(PrunedLocator)),
     Edge(ExternalLocator(1), "dependencies", Descriptor(ExternalLocator(2))),
     Edge(W(2), "dependencies", Descriptor(WorkspaceLocator(1))),
     Edge(ExternalLocator(2), "dependencies", Descriptor(ExternalLocator(1))),
     Edge(ExternalLocator(2), "dependencies", Descriptor(WorkspaceLocator(1))),
     Edge(W(1), "devDependencies", Descriptor(ExternalLocator(2))),
     Edge(W(2), "dependencies", Descriptor(ExternalLocator(2))),
     Edge(W(1), "dependencies", Descriptor(PrunedLocator)),
     Edge(ExternalLocator(1), "dependencies", UnresolvedDescriptor),
     Edge(W(1), "devDependencies", Descriptor(ExternalLocator(1))),
     Edge(W(2), "dependencies", Descriptor(ExternalLocator(1))),
     Edge(ExternalLocator(2), "dependencies", Descriptor(ExternalLocator(2))) >>

\* The project's workspaces (project.workspaces): those the edges above name.
Workspaces ==
  {EdgeUniverse[i].from[2] :
     i \in {j \in 1..Len(EdgeUniverse) : EdgeUniverse[j].from[1] = "manifest"}}
WorkspaceLocators == {WorkspaceLocator(w) : w \in Workspaces}
ExternalLocators == {ExternalLocator(e) : e \in 1..NumExternals}

\* project.storedResolutions.get(descriptorHash)
StoredResolutions(d) ==
  IF d = UnresolvedDescriptor THEN NoLocator ELSE <<d[2], d[3]>>

\* project.storedPackages.has(locatorHash)
StoredPackagesHas(l) == l \in WorkspaceLocators \cup ExternalLocators

\* project.tryWorkspaceByLocator(pkg): the workspace, or 0 for null.
TryWorkspaceByLocator(l) ==
  IF l \in WorkspaceLocators THEN l[2] ELSE 0

EdgeIndexes ==
  1..(IF MaxEdges < Len(EdgeUniverse) THEN MaxEdges ELSE Len(EdgeUniverse))

\* The descriptors of the edges of g leaving f with kind k, in manifest order.
RECURSIVE DescriptorsFrom(_, _, _, _)
DescriptorsFrom(g, f, k, i) ==
  IF i > Len(EdgeUniverse) THEN <<>>
  ELSE LET e == EdgeUniverse[i]
       IN (IF i \in g /\ e.from = f /\ e.kind = k
           THEN <<e.descriptor>> ELSE <<>>)
          \o DescriptorsFrom(g, f, k, i + 1)

\* [...workspace.manifest.dependencies.values()]
ManifestDependencies(g, w) == DescriptorsFrom(g, W(w), "dependencies", 1)
\* [...workspace.manifest.devDependencies.values()]
ManifestDevDependencies(g, w) == DescriptorsFrom(g, W(w), "devDependencies", 1)
\* pkg.dependencies.values()
PackageDependencies(g, l) == DescriptorsFrom(g, l, "dependencies", 1)

\* getWorkspaceDependencyDescriptors(configuration, workspace, includeDev)
GetWorkspaceDependencyDescriptors(g, w, dev) ==
  ManifestDependencies(g, w)
    \o (IF dev THEN ManifestDevDependencies(g, w) ELSE <<>>)

(***************************************************************************)
(* collectExternalLocatorHashes: the body of the two for-loops.            *)
(***************************************************************************)
WorkspaceItem(w) == [type |-> "workspace", ref |-> <<"workspace", w>>]
LocatorItem(l) == [type |-> "locator", ref |-> l]

\* What a descriptor turns out to be: "unresolved" (no entry in the resolution
\* table), "missing" (no package record), "workspace" or "external".
Classify(d) ==
  LET resolution == StoredResolutions(d)
  IN IF resolution = NoLocator THEN "unresolved"
     ELSE IF ~StoredPackagesHas(resolution) THEN "missing"
     ELSE IF TryWorkspaceByLocator(resolution) # 0 THEN "workspace"
     ELSE "external"

\* WorkspaceDescriptor with the recursiveWorkspaces test lost: a resolved
\* workspace is always enqueued.
WorkspaceDescriptorAlwaysRecurses(q, ext, visitedLoc, d, rw, rn) ==
  LET resolution == StoredResolutions(d)
      unchanged == [queue |-> q, external |-> ext]
  IN IF resolution = NoLocator THEN unchanged
     ELSE IF ~StoredPackagesHas(resolution) THEN unchanged
     ELSE IF TryWorkspaceByLocator(resolution) # 0
     THEN [queue |-> Append(q, WorkspaceItem(TryWorkspaceByLocator(resolution))),
           external |-> ext]
     ELSE [queue |-> IF rn /\ resolution \notin visitedLoc
                     THEN Append(q, LocatorItem(resolution))
                     ELSE q,
           external |-> ext \cup {resolution}]

\* WorkspaceDescriptor that, under recursiveNpm, only enqueues the external
\* package and leaves adding it to the result to a later step.
WorkspaceDescriptorDefersAdd(q, ext, visitedLoc, d, rw, rn) ==
  LET resolution == StoredResolutions(d)
      unchanged == [queue |-> q, external |-> ext]
  IN IF resolution = NoLocator THEN unchanged
     ELSE IF ~StoredPackagesHas(resolution) THEN unchanged
     ELSE IF TryWorkspaceByLocator(resolution) # 0
     THEN [queue |-> IF rw
                     THEN Append(q, WorkspaceItem(TryWorkspaceByLocator(resolution)))
                     ELSE q,
           external |-> ext]
     ELSE IF rn
     THEN [queue |-> IF resolution \notin visitedLoc
                     THEN Append(q, LocatorItem(resolution))
                     ELSE q,
           external |-> ext]
     ELSE [queue |-> q, external |-> ext \cup {resolution}]

\* WorkspaceDescriptor with the recursiveNpm test of the enqueue guard lost.
WorkspaceDescriptorAlwaysEnqueues(q, ext, visitedLoc, d, rw, rn) ==
  LET resolution == StoredResolutions(d)
      unchanged == [queue |-> q, external |-> ext]
  IN IF resolution = NoLocator THEN unchanged
     ELSE IF ~StoredPackagesHas(resolution) THEN unchanged
     ELSE IF TryWorkspaceByLocator(resolution) # 0
     THEN [queue |-> IF rw
                     THEN Append(q, WorkspaceItem(TryWorkspaceByLocator(resolution)))
                     ELSE q,
           external |-> ext]
     ELSE [queue |-> IF resolution \notin visitedLoc
                     THEN Append(q, LocatorItem(resolution))
                     ELSE q,
           external |-> ext \cup {resolution}]

\* WorkspaceDescriptor with queue.unshift in the place of queue.push.
WorkspaceDescriptorUnshifts(q, ext, visitedLoc, d, rw, rn) ==
  LET resolution == StoredResolutions(d)
      unchanged == [queue |-> q, external |-> ext]
  IN IF resolution = NoLocator THEN unchanged
     ELSE IF ~StoredPackagesHas(resolution) THEN unchanged
     ELSE IF TryWorkspaceByLocator(resolution) # 0
     THEN [queue |-> IF rw
                     THEN <<WorkspaceItem(TryWorkspaceByLocator(resolution))>> \o q
                     ELSE q,
           external |-> ext]
     ELSE [queue |-> IF rn /\ resolution \notin visitedLoc
                     THEN <<LocatorItem(resolution)>> \o q
                     ELSE q,
           external |-> ext \cup {resolution}]

\* One pass of the for-loop of a workspace item over descriptor d:
\* the queue and the result set after it.
WorkspaceDescriptor(q, ext, visitedLoc, d, rw, rn) ==
  LET resolution == StoredResolutions(d)
      unchanged == [queue |-> q, external |-> ext]
  IN IF resolution = NoLocator THEN unchanged
     ELSE IF ~StoredPackagesHas(resolution) THEN unchanged
     ELSE IF TryWorkspaceByLocator(resolution) # 0
     THEN [queue |-> IF rw
                     THEN Append(q, WorkspaceItem(TryWorkspaceByLocator(resolution)))
                     ELSE q,
           external |-> ext]
     ELSE [queue |-> IF rn /\ resolution \notin visitedLoc
                     THEN Append(q, LocatorItem(resolution))
                     ELSE q,
           external |-> ext \cup {resolution}]

\* LocatorDescriptor with the workspace membership test lost.
LocatorDescriptorNoWorkspaceTest(q, ext, visitedLoc, d, rw) ==
  LET resolution == StoredResolutions(d)
      unchanged == [queue |-> q, external |-> ext]
  IN IF resolution = NoLocator THEN unchanged
     ELSE IF ~StoredPackagesHas(resolution) THEN unchanged
     ELSE [queue |-> IF resolution \notin visitedLoc
                     THEN Append(q, LocatorItem(resolution))
                     ELSE q,
           external |-> ext \cup {resolution}]

\* LocatorDescriptor with the package store lookup lost.
LocatorDescriptorNoPackageLookup(q, ext, visitedLoc, d, rw) ==
  LET resolution == StoredResolutions(d)
      unchanged == [queue |-> q, external |-> ext]
  IN IF resolution = NoLocator THEN unchanged
     ELSE IF TryWorkspaceByLocator(resolution) # 0
     THEN [queue |-> IF rw
                     THEN Append(q, WorkspaceItem(TryWorkspaceByLocator(resolution)))
                     ELSE q,
           external |-> ext]
     ELSE [queue |-> IF resolution \notin visitedLoc
                     THEN Append(q, LocatorItem(resolution))
                     ELSE q,
           external |-> ext \cup {resolution}]

\* One pass of the for-loop of a locator item over descriptor d.
LocatorDescriptor(q, ext, visitedLoc, d, rw) ==
  LET resolution == StoredResolutions(d)
      unchanged == [queue |-> q, external |-> ext]
  IN IF resolution = NoLocator THEN unchanged
     ELSE IF ~StoredPackagesHas(resolution) THEN unchanged
     ELSE IF TryWorkspaceByLocator(resolution) # 0
     THEN [queue |-> IF rw
                     THEN Append(q, WorkspaceItem(TryWorkspaceByLocator(resolution)))
                     ELSE q,
           external |-> ext]
     ELSE [queue |-> IF resolution \notin visitedLoc
                     THEN Append(q, LocatorItem(resolution))
                     ELSE q,
           external |-> ext \cup {resolution}]

\* The visited test of a workspace item lost.
WorkspaceNeverVisited(w, visitedCwds) == FALSE

\* visitedWorkspaceCwds.has(node.workspace.cwd)
WorkspaceVisited(w, visitedCwds) == Cwd(w) \in visitedCwds

\* The add to the visited set lost.
AddNoVisitedWorkspace(w, visitedCwds) == visitedCwds

\* visitedWorkspaceCwds.add(node.workspace.cwd)
AddVisitedWorkspace(w, visitedCwds) == visitedCwds \cup {Cwd(w)}

\* The visited test of a locator item lost.
LocatorNeverVisited(l, visitedLoc) == FALSE

\* A visited test that takes every locator for visited.
LocatorAlwaysVisited(l, visitedLoc) == TRUE

\* visitedLocatorHashes.has(node.locatorHash)
LocatorVisited(l, visitedLoc) == l \in visitedLoc

\* The descriptors a locator item's for-loop runs over: none when the package
\* record is missing or recursiveNpm is off.
LocatorItemDescriptors(g, l, rn) ==
  IF ~StoredPackagesHas(l) THEN <<>>
  ELSE IF ~rn THEN <<>>
  ELSE PackageDependencies(g, l)

(***************************************************************************)
(* collectExternalLocatorHashes as a function of its inputs: the while     *)
(* loop run to its end.                                                    *)
(***************************************************************************)
RECURSIVE WorkspaceForLoop(_, _, _, _, _, _)
WorkspaceForLoop(q, ext, visitedLoc, ds, rw, rn) ==
  IF ds = <<>> THEN [queue |-> q, external |-> ext]
  ELSE LET r == WorkspaceDescriptor(q, ext, visitedLoc, Head(ds), rw, rn)
       IN WorkspaceForLoop(r.queue, r.external, visitedLoc, Tail(ds), rw, rn)

RECURSIVE LocatorForLoop(_, _, _, _, _)
LocatorForLoop(q, ext, visitedLoc, ds, rw) ==
  IF ds = <<>> THEN [queue |-> q, external |-> ext]
  ELSE LET r == LocatorDescriptor(q, ext, visitedLoc, Head(ds), rw)
       IN LocatorForLoop(r.queue, r.external, visitedLoc, Tail(ds), rw)

RECURSIVE WhileLoop(_, _, _, _, _, _, _, _)
WhileLoop(g, dev, rw, rn, q, ext, visitedCwds, visitedLoc) ==
  IF q = <<>> THEN ext
  ELSE LET item == Head(q)
       IN IF item.type = "workspace"
          THEN LET w == item.ref[2]
               IN IF WorkspaceVisited(w, visitedCwds)
                  THEN WhileLoop(g, dev, rw, rn, Tail(q), ext, visitedCwds, visitedLoc)
                  ELSE LET r == WorkspaceForLoop(Tail(q), ext, visitedLoc,
                                    GetWorkspaceDependencyDescriptors(g, w, dev), rw, rn)
                       IN WhileLoop(g, dev, rw, rn, r.queue, r.external,
                                    AddVisitedWorkspace(w, visitedCwds), visitedLoc)
          ELSE LET l == item.ref
               IN IF LocatorVisited(l, visitedLoc)
                  THEN WhileLoop(g, dev, rw, rn, Tail(q), ext, visitedCwds, visitedLoc)
                  ELSE LET r == LocatorForLoop(Tail(q), ext, visitedLoc \cup {l},
                                    LocatorItemDescriptors(g, l, rn), rw)
                       IN WhileLoop(g, dev, rw, rn, r.queue, r.external,
                                    visitedCwds, visitedLoc \cup {l})

\* workspaces.map((workspace) => ({ type: 'workspace', workspace }))
InitialQueue(seeds) == [i \in 1..Len(seeds) |-> WorkspaceItem(seeds[i])]

CollectExternalLocatorHashes(g, seeds, dev, rw, rn) ==
  WhileLoop(g, dev, rw, rn, InitialQueue(seeds), {}, {}, {})

(***************************************************************************)
(* The collector as a state machine.                                       *)
(***************************************************************************)
SeedLists ==
  UNION {[1..n -> Workspaces] : n \in 1..MaxSeeds}

\* A history counter, which stops at MaxCount.
Count(n) == IF n < MaxCount THEN n + 1 ELSE n

\* Where control is once the for-loop has ds left to visit.
AfterPass(ds, loop) == IF ds = <<>> THEN "loop" ELSE loop

NoNode == [type |-> "none", ref |-> NoLocator]

Nodes ==
  {Cwd(w) : w \in Workspaces} \cup ExternalLocators \cup WorkspaceLocators
    \cup {PrunedLocator}

CollectorInit ==
  /\ edges \in SUBSET EdgeIndexes
  /\ workspaces \in SeedLists
  /\ includeDev \in BOOLEAN
  /\ recursiveWorkspaces \in BOOLEAN
  /\ recursiveNpm \in BOOLEAN
  /\ queue = InitialQueue(workspaces)
  /\ external = {}
  /\ visitedWorkspaceCwds = {}
  /\ visitedLocatorHashes = {}
  /\ node = NoNode
  /\ descriptors = <<>>
  /\ pc = "loop"
  /\ expansions = [n \in Nodes |-> 0]
  /\ depths = [node |-> 0, queue |-> [i \in 1..Len(queue) |-> 0]]
  /\ lastOp = "init"

inputVars == <<edges, workspaces, includeDev, recursiveWorkspaces, recursiveNpm>>

\* The depths once the head of the queue is taken as the node.
DepthsShifted(ds) == [node |-> Head(ds.queue), queue |-> Tail(ds.queue)]

\* The depths once a for-loop pass has turned the queue into q: what it
\* pushed lies one edge beyond the node.  The depth is a history counter.
DepthsPushed(ds, q) ==
  [ds EXCEPT !.queue = [i \in 1..Len(q) |-> IF i <= Len(@) THEN @[i] ELSE Count(ds.node)]]

\* queue.shift() on a queue that is the caller's workspaces array itself.
ShiftShared(q, seeds) ==
  [queue |-> Tail(q), workspaces |-> IF seeds = <<>> THEN seeds ELSE Tail(seeds)]

\* queue.shift(): the queue is the array workspaces.map(...) made, so the
\* caller's workspaces array keeps its elements.
Shift(q, seeds) == [queue |-> Tail(q), workspaces |-> seeds]

\* queue.shift() of a workspace item whose cwd was visited: continue.
SkipVisitedWorkspace ==
  /\ pc = "loop" /\ queue # <<>>
  /\ Head(queue).type = "workspace"
  /\ WorkspaceVisited(Head(queue).ref[2], visitedWorkspaceCwds)
  /\ queue' = Shift(queue, workspaces).queue
  /\ workspaces' = Shift(queue, workspaces).workspaces
  /\ node' = Head(queue)
  /\ lastOp' = "skipWorkspace"
  /\ UNCHANGED <<libVars, mapperVars, edges, includeDev, recursiveWorkspaces, recursiveNpm,
                 external, visitedWorkspaceCwds, visitedLocatorHashes,
                 descriptors, pc, expansions>>
  /\ depths' = DepthsShifted(depths)

\* queue.shift() of a workspace item not yet visited: mark it and start its for-loop.
ExpandWorkspace ==
  /\ pc = "loop" /\ queue # <<>>
  /\ Head(queue).type = "workspace"
  /\ LET w == Head(queue).ref[2]
     IN /\ ~WorkspaceVisited(w, visitedWorkspaceCwds)
        /\ visitedWorkspaceCwds' = AddVisitedWorkspace(w, visitedWorkspaceCwds)
        /\ descriptors' = GetWorkspaceDependencyDescriptors(edges, w, includeDev)
        /\ pc' = AfterPass(descriptors', "workspace")
        /\ expansions' = [expansions EXCEPT ![Cwd(w)] = Count(@)]
  /\ queue' = Shift(queue, workspaces).queue
  /\ workspaces' = Shift(queue, workspaces).workspaces
  /\ node' = Head(queue)
  /\ lastOp' = "expandWorkspace"
  /\ depths' = DepthsShifted(depths)
  /\ UNCHANGED <<libVars, mapperVars, edges, includeDev, recursiveWorkspaces, recursiveNpm,
                 external, visitedLocatorHashes>>

\* One pass of the workspace item's for-loop.
WorkspaceLoop ==
  /\ pc = "workspace" /\ descriptors # <<>>
  /\ LET d == Head(descriptors)
         r == WorkspaceDescriptor(queue, external, visitedLocatorHashes, d,
                                  recursiveWorkspaces, recursiveNpm)
     IN /\ queue' = r.queue
        /\ external' = r.external
        /\ depths' = DepthsPushed(depths, r.queue)
        /\ lastOp' = Classify(d)
  /\ descriptors' = Tail(descriptors)
  /\ pc' = AfterPass(Tail(descriptors), pc)
  /\ UNCHANGED <<libVars, mapperVars, inputVars, visitedWorkspaceCwds, visitedLocatorHashes, node,
                 expansions>>

\* queue.shift() of a locator item already visited: continue.
SkipVisitedLocator ==
  /\ pc = "loop" /\ queue # <<>>
  /\ Head(queue).type = "locator"
  /\ LocatorVisited(Head(queue).ref, visitedLocatorHashes)
  /\ queue' = Shift(queue, workspaces).queue
  /\ workspaces' = Shift(queue, workspaces).workspaces
  /\ node' = Head(queue)
  /\ lastOp' = "skipLocator"
  /\ UNCHANGED <<libVars, mapperVars, edges, includeDev, recursiveWorkspaces, recursiveNpm,
                 external, visitedWorkspaceCwds, visitedLocatorHashes,
                 descriptors, pc, expansions>>
  /\ depths' = DepthsShifted(depths)

\* queue.shift() of a locator item not yet visited: mark it and start its for-loop.
ExpandLocator ==
  /\ pc = "loop" /\ queue # <<>>
  /\ Head(queue).type = "locator"
  /\ LET l == Head(queue).ref
     IN /\ ~LocatorVisited(l, visitedLocatorHashes)
        /\ visitedLocatorHashes' = visitedLocatorHashes \cup {l}
        /\ descriptors' = LocatorItemDescriptors(edges, l, recursiveNpm)
        /\ pc' = AfterPass(descriptors', "locator")
        /\ expansions' = [expansions EXCEPT ![l] = Count(@)]
  /\ queue' = Shift(queue, workspaces).queue
  /\ workspaces' = Shift(queue, workspaces).workspaces
  /\ node' = Head(queue)
  /\ lastOp' = "expandLocator"
  /\ depths' = DepthsShifted(depths)
  /\ UNCHANGED <<libVars, mapperVars, edges, includeDev, recursiveWorkspaces, recursiveNpm,
                 external, visitedWorkspaceCwds>>

\* One pass of the locator item's for-loop.
LocatorLoop ==
  /\ pc = "locator" /\ descriptors # <<>>
  /\ LET d == Head(descriptors)
         r == LocatorDescriptor(queue, external, visitedLocatorHashes, d,
                                recursiveWorkspaces)
     IN /\ queue' = r.queue
        /\ external' = r.external
        /\ depths' = DepthsPushed(depths, r.queue)
        /\ lastOp' = Classify(d)
  /\ descriptors' = Tail(descriptors)
  /\ pc' = AfterPass(Tail(descriptors), pc)
  /\ UNCHANGED <<libVars, mapperVars, inputVars, visitedWorkspaceCwds, visitedLocatorHashes, node,
                 expansions>>

\* queue.length = 0: return external.
ReturnExternal ==
  /\ pc = "loop" /\ queue = <<>>
  /\ pc' = "done"
  /\ lastOp' = "return"
  /\ UNCHANGED <<libVars, mapperVars, inputVars, queue, external, visitedWorkspaceCwds,
                 visitedLocatorHashes, node, descriptors, expansions, depths>>

CollectorNext ==
  \/ SkipVisitedWorkspace
  \/ ExpandWorkspace
  \/ WorkspaceLoop
  \/ SkipVisitedLocator
  \/ ExpandLocator
  \/ LocatorLoop
  \/ ReturnExternal

(***************************************************************************)
(* The package store and the metadata of the packages, as the mapper of    *)
(* collectLicenseEntries reads them.  Names, versions and urls are given   *)
(* by their rank in localeCompare's order.                                 *)
(***************************************************************************)
\* items[currentIndex] of a hole in the items array
Undefined == <<"undefined", 0>>
\* the mapper's null
Null == [name |-> 0, version |-> 0, licenseType |-> "null", url |-> 0]

\* structUtils.stringifyIdent(pkg): npm 1 and npm 2 carry the same name.
StringifyIdent(l) == (l[2] + 1) \div 2
\* pkg.version ?? ''
PackageVersion(l) == 1
\* metadata.licenseType
LicenseType(l) == IF l[2] % 2 = 1 THEN "MIT" ELSE "GPL-3.0"
\* metadata.url
MetadataUrl(l) == (l[2] + 1) \div 2

\* The mapper handed to mapWithConcurrency, when its lookup succeeds.
Mapper(locatorHash) ==
  IF ~StoredPackagesHas(locatorHash) THEN Null
  ELSE [name |-> StringifyIdent(locatorHash),
        version |-> PackageVersion(locatorHash),
        licenseType |-> LicenseType(locatorHash),
        url |-> MetadataUrl(locatorHash)]

\* Whether the mapper awaits readPackageMetadata, which may throw.
MapperFetches(locatorHash) == StoredPackagesHas(locatorHash)

\* left.x.localeCompare(right.x)
LocaleCompare(l, r) == IF l < r THEN -1 ELSE IF l > r THEN 1 ELSE 0

\* The comparator of entries.sort.
CompareEntries(left, right) ==
  LET byName == LocaleCompare(left.name, right.name)
      byVersion == LocaleCompare(left.version, right.version)
  IN IF byName # 0 THEN byName
     ELSE IF byVersion # 0 THEN byVersion
     ELSE LocaleCompare(left.url, right.url)

\* Array.prototype.sort is stable: an entry goes behind those it compares
\* equal to.
RECURSIVE InsertSorted(_, _)
InsertSorted(sorted, e) ==
  IF sorted = <<>> THEN <<e>>
  ELSE IF CompareEntries(Head(sorted), e) <= 0
       THEN <<Head(sorted)>> \o InsertSorted(Tail(sorted), e)
       ELSE <<e>> \o sorted

RECURSIVE SortEntries(_)
SortEntries(seq) ==
  IF seq = <<>> THEN <<>>
  ELSE InsertSorted(SortEntries(SubSeq(seq, 1, Len(seq) - 1)), seq[Len(seq)])

(***************************************************************************)
(* mapWithConcurrency.                                                     *)
(***************************************************************************)
\* Math.floor(concurrency), concurrency given in halves.
Floor(halves) == halves \div 2

\* Math.ceil in the place of Math.floor.
MaxConcurrencyCeil(halves) ==
  LET c == (halves + 1) \div 2 IN IF c > 1 THEN c ELSE 1

\* const maxConcurrency = Math.max(1, Math.floor(concurrency))
MaxConcurrencyOf(halves) ==
  IF Floor(halves) > 1 THEN Floor(halves) ELSE 1

\* Math.min(maxConcurrency, items.length)
WorkerCount(its, halves) ==
  IF MaxConcurrencyOf(halves) < Len(its) THEN MaxConcurrencyOf(halves) ELSE Len(its)

\* runWorker that takes the index and moves the cursor only once the mapper
\* call is over.
RECURSIVE RunWorkerLateIncrement(_, _)
RunWorkerLateIncrement(its, next) ==
  IF ~(next < Len(its)) THEN [claimed |-> <<>>, current |-> -1, next |-> next]
  ELSE IF its[next + 1] = Undefined
       THEN LET r == RunWorkerLateIncrement(its, next + 1)
            IN [r EXCEPT !.claimed = <<next>> \o @]
       ELSE [claimed |-> <<next>>, current |-> next, next |-> next]

\* runWorker from the while test to its next await: the indexes it takes from
\* the cursor (those of holes are passed over), the index whose mapper call it
\* awaits (-1: the loop is over) and the cursor it leaves.
RECURSIVE RunWorker(_, _)
RunWorker(its, next) ==
  IF ~(next < Len(its)) THEN [claimed |-> <<>>, current |-> -1, next |-> next]
  ELSE IF its[next + 1] = Undefined
       THEN LET r == RunWorker(its, next + 1)
            IN [r EXCEPT !.claimed = <<next>> \o @]
       ELSE [claimed |-> <<next>>, current |-> next, next |-> next + 1]

WorkerAt(r) ==
  [pc |-> IF r.current = -1 THEN "done" ELSE "awaiting", index |-> r.current]

RECURSIVE CountClaims(_, _)
CountClaims(counts, claimed) ==
  IF claimed = <<>> THEN counts
  ELSE CountClaims([counts EXCEPT ![Head(claimed)] = Count(@)], Tail(claimed))

CountCall(counts, current) ==
  IF current = -1 THEN counts ELSE [counts EXCEPT ![current] = Count(@)]

\* Promise.allSettled in the place of Promise.all: a failed worker counts as
\* a finished one.
PromiseAllSettled(ws, p) ==
  IF p # "pending" THEN p
  ELSE IF \A w \in 1..Len(ws) : ws[w].pc \in {"done", "failed"} THEN "fulfilled"
  ELSE "pending"

\* await Promise.all(workers); return result: the promise of mapWithConcurrency
\* once the workers stand as ws.
PromiseAll(ws, p) ==
  IF p # "pending" THEN p
  ELSE IF \E w \in 1..Len(ws) : ws[w].pc = "failed" THEN "rejected"
  ELSE IF \A w \in 1..Len(ws) : ws[w].pc = "done" THEN "fulfilled"
  ELSE "pending"

\* Array.from({ length }, () => runWorker()): the workers started one after
\* the other, each run to its first await.
RECURSIVE StartWorkers(_, _, _)
StartWorkers(its, n, st) ==
  IF n = 0 THEN st
  ELSE LET r == RunWorker(its, st.nextIndex)
       IN StartWorkers(its, n - 1,
            [nextIndex |-> r.next,
             workers |-> Append(st.workers, WorkerAt(r)),
             claimCount |-> CountClaims(st.claimCount, r.claimed),
             mapperCalls |-> CountCall(st.mapperCalls, r.current)])

IsAwaiting(worker) == worker.pc = "awaiting"

\* The log once the workers ws were started: one call per worker that is not
\* through at once.
CallsLogged(ws) ==
  LET started == SelectSeq(ws, IsAwaiting)
  IN [k \in 1..Len(started) |-> <<"called", started[k].index>>]

\* result.push(mapped) also for a null.
PushMappedKeepsNull(res, mapped) == Append(res, mapped)

\* if (mapped !== null) { result.push(mapped) }
PushMapped(res, mapped) == IF mapped # Null THEN Append(res, mapped) ELSE res

\* entries before collectLicenseEntries has returned: no array it can return.
NoEntries == <<Null>>
NoError == -1

Indexes(its) == 0..(Len(its) - 1)

MapperIdle ==
  /\ nextIndex = 0
  /\ result = <<>>
  /\ workers = <<>>
  /\ promise = "notCalled"
  /\ error = NoError
  /\ entries = NoEntries
  /\ callerPc = "awaiting"
  /\ claimCount = [i \in Indexes(items) |-> 0]
  /\ mapperCalls = [i \in Indexes(items) |-> 0]
  /\ failures = <<>>
  /\ log = <<>>

\* The concurrency of a call, in halves.
Concurrencies == (-2)..(2 * MaxConcurrency)

RECURSIVE SeqsUpTo(_, _)
SeqsUpTo(S, n) ==
  IF n = 0 THEN {<<>>}
  ELSE LET shorter == SeqsUpTo(S, n - 1)
       IN shorter \cup {Append(q, x) : q \in shorter, x \in S}

\* Any call of mapWithConcurrency.
MapperInit ==
  /\ items \in SeqsUpTo(ExternalLocators \cup {PrunedLocator, Undefined}, MaxItems)
  /\ concurrency \in Concurrencies
  /\ MapperIdle

\* mapWithConcurrency is called: the workers are created.
CallMapWithConcurrency ==
  /\ promise = "notCalled"
  /\ \E st \in {StartWorkers(items, WorkerCount(items, concurrency),
                  [nextIndex |-> nextIndex, workers |-> <<>>,
                   claimCount |-> claimCount, mapperCalls |-> mapperCalls])} :
        /\ nextIndex' = st.nextIndex
        /\ workers' = st.workers
        /\ claimCount' = st.claimCount
        /\ mapperCalls' = st.mapperCalls
        /\ log' = CallsLogged(st.workers)
  /\ promise' = "pending"
  /\ UNCHANGED <<libVars, collectorVars, items, concurrency, result, error, entries,
                 callerPc, failures>>

\* The mapper call a worker awaits returns: the value is kept unless null, and
\* the worker goes round its loop to the next await.
MapperReturns(w) ==
  /\ promise \in {"pending", "rejected"}
  /\ workers[w].pc = "awaiting"
  /\ LET mapped == Mapper(items[workers[w].index + 1])
         r == RunWorker(items, nextIndex)
         ws == [workers EXCEPT ![w] = WorkerAt(r)]
     IN /\ result' = PushMapped(result, mapped)
        /\ log' = log \o << <<"returned", workers[w].index>> >>
                       \o (IF r.current # -1 THEN << <<"called", r.current>> >> ELSE <<>>)
        /\ nextIndex' = r.next
        /\ workers' = ws
        /\ claimCount' = CountClaims(claimCount, r.claimed)
        /\ mapperCalls' = CountCall(mapperCalls, r.current)
        /\ promise' = PromiseAll(ws, promise)
  /\ UNCHANGED <<libVars, collectorVars, items, concurrency, error, entries, callerPc,
                 failures>>

\* The mapper call a worker awaits throws (readPackageMetadata failed): the
\* worker ends, and Promise.all rejects unless it already has.
MapperThrows(w) ==
  /\ promise \in {"pending", "rejected"}
  /\ workers[w].pc = "awaiting"
  /\ MapperFetches(items[workers[w].index + 1])
  /\ LET ws == [workers EXCEPT ![w].pc = "failed"]
     IN /\ workers' = ws
        /\ promise' = PromiseAll(ws, promise)
        /\ error' = IF promise = "pending" /\ promise' = "rejected"
                    THEN workers[w].index ELSE error
  /\ failures' = Append(failures, workers[w].index)
  /\ log' = Append(log, <<"threw", workers[w].index>>)
  /\ UNCHANGED <<libVars, collectorVars, items, concurrency, nextIndex, result, entries,
                 callerPc, claimCount, mapperCalls>>

\* Promise.all of workers whose promises are all resolved the moment they are
\* made: there is no worker at all, or every worker met nothing but holes.
NoWorkers ==
  /\ promise = "pending" /\ \A w \in 1..Len(workers) : workers[w].pc = "done"
  /\ promise' = PromiseAll(workers, promise)
  /\ UNCHANGED <<libVars, collectorVars, items, concurrency, nextIndex, result, workers,
                 error, entries, callerPc, claimCount, mapperCalls, failures, log>>

\* collectLicenseEntries gets the array: entries.sort(...); return entries.
SortAndReturn ==
  /\ callerPc = "awaiting" /\ promise = "fulfilled"
  /\ entries' = SortEntries(result)
  /\ callerPc' = "returned"
  /\ UNCHANGED <<libVars, collectorVars, items, concurrency, nextIndex, result, workers,
                 promise, error, claimCount, mapperCalls, failures, log>>

\* collectLicenseEntries gets the rejection: the await throws.
Rethrow ==
  /\ callerPc = "awaiting" /\ promise = "rejected"
  /\ callerPc' = "threw"
  /\ UNCHANGED <<libVars, collectorVars, items, concurrency, nextIndex, result, workers,
                 promise, error, entries, claimCount, mapperCalls, failures, log>>

MapperNext ==
  \/ CallMapWithConcurrency
  \/ \E w \in 1..Len(workers) : MapperReturns(w)
  \/ \E w \in 1..Len(workers) : MapperThrows(w)
  \/ NoWorkers
  \/ SortAndReturn
  \/ Rethrow

\* The collector is not running: it has returned ext.
CollectorReturned(ext) ==
  /\ edges = {}
  /\ workspaces = <<>>
  /\ includeDev = FALSE
  /\ recursiveWorkspaces = FALSE
  /\ recursiveNpm = FALSE
  /\ queue = <<>>
  /\ external = ext
  /\ visitedWorkspaceCwds = {}
  /\ visitedLocatorHashes = {}
  /\ node = NoNode
  /\ descriptors = <<>>
  /\ pc = "done"
  /\ expansions = [n \in Nodes |-> 0]
  /\ depths = [node |-> 0, queue |-> [i \in 1..Len(queue) |-> 0]]
  /\ lastOp = "init"

(***************************************************************************)
(* Strings.  A string is the sequence of its symbols: a whitespace         *)
(* character, a punctuation character, or an unbroken run of letters,      *)
(* digits, dots and dashes (a word).  No string holds two words in a row.  *)
(***************************************************************************)
IsSpace(c) == c \in {" ", "\t"}

\* String.prototype.toUpperCase on one word
UpperSymbol(c) ==
  CASE c = "mit" -> "MIT"
    [] c = "gpl" -> "GPL"
    [] c = "and" -> "AND"
    [] c = "or" -> "OR"
    [] c = "with" -> "WITH"
    [] OTHER -> c
ToUpperCase(s) == [i \in 1..Len(s) |-> UpperSymbol(s[i])]

RECURSIVE TrimStart(_)
TrimStart(s) == IF s # <<>> /\ IsSpace(Head(s)) THEN TrimStart(Tail(s)) ELSE s
RECURSIVE TrimEnd(_)
TrimEnd(s) ==
  IF s # <<>> /\ IsSpace(s[Len(s)]) THEN TrimEnd(SubSeq(s, 1, Len(s) - 1)) ELSE s
\* String.prototype.trim
Trim(s) == TrimEnd(TrimStart(s))

\* value.replace(/\s+/g, ' ')
RECURSIVE ReplaceSpaceRuns(_)
ReplaceSpaceRuns(s) ==
  IF s = <<>> THEN <<>>
  ELSE IF IsSpace(Head(s)) THEN <<" ">> \o ReplaceSpaceRuns(TrimStart(s))
  ELSE <<Head(s)>> \o ReplaceSpaceRuns(Tail(s))

\* value.split(/\s+/): the pieces between the whitespace runs, the empty
\* pieces at both ends included.
RECURSIVE SplitSpaceRuns(_, _, _)
SplitSpaceRuns(s, current, done) ==
  IF s = <<>> THEN Append(done, current)
  ELSE IF IsSpace(Head(s)) THEN SplitSpaceRuns(TrimStart(s), <<>>, Append(done, current))
  ELSE SplitSpaceRuns(Tail(s), Append(current, Head(s)), done)

\* value.split(separator) for a one-character separator: the pieces between
\* its occurrences, empty pieces included.
RECURSIVE SplitOn(_, _, _, _)
SplitOn(separator, s, current, done) ==
  IF s = <<>> THEN Append(done, current)
  ELSE IF Head(s) = separator THEN SplitOn(separator, Tail(s), <<>>, Append(done, current))
  ELSE SplitOn(separator, Tail(s), Append(current, Head(s)), done)

\* array.map(trim).filter(length > 0)
RECURSIVE TrimAndFilter(_)
TrimAndFilter(pieces) ==
  IF pieces = <<>> THEN <<>>
  ELSE LET piece == Trim(Head(pieces))
       IN (IF piece = <<>> THEN <<>> ELSE <<piece>>) \o TrimAndFilter(Tail(pieces))

\* parts.join(' ')
RECURSIVE JoinWithSpace(_)
JoinWithSpace(parts) ==
  IF parts = <<>> THEN <<>>
  ELSE IF Len(parts) = 1 THEN Head(parts)
  ELSE Head(parts) \o <<" ">> \o JoinWithSpace(Tail(parts))

(***************************************************************************)
(* The license auditor.                                                    *)
(***************************************************************************)
NormalizeLicenseToken(value) == ToUpperCase(ReplaceSpaceRuns(Trim(value)))

\* Where the separator /\s+OR\s+|\s+AND\s+|\s+WITH\s+|[()]/gi that starts at
\* raw[i] ends (the index after it), or 0 when none starts there.
SeparatorEnd(raw, i) ==
  IF raw[i] \in {"(", ")"} THEN i + 1
  ELSE IF ~IsSpace(raw[i]) THEN 0
  ELSE LET word == i + Len(SubSeq(raw, i, Len(raw)))
                     - Len(TrimStart(SubSeq(raw, i, Len(raw))))
       IN IF word + 1 <= Len(raw)
             /\ UpperSymbol(raw[word]) \in {"OR", "AND", "WITH"}
             /\ IsSpace(raw[word + 1])
          THEN Len(raw) + 1 - Len(TrimStart(SubSeq(raw, word + 1, Len(raw))))
          ELSE 0

\* raw.split(separator)
RECURSIVE SplitSeparators(_, _, _, _)
SplitSeparators(raw, i, current, done) ==
  IF i > Len(raw) THEN Append(done, current)
  ELSE LET end == SeparatorEnd(raw, i)
       IN IF end > i THEN SplitSeparators(raw, end, <<>>, Append(done, current))
          ELSE SplitSeparators(raw, i + 1, Append(current, raw[i]), done)

ExtractLicenseTokens(licenseType) ==
  LET raw == Trim(licenseType)
  IN IF raw = <<>> THEN <<>>
     ELSE LET split == TrimAndFilter(SplitSeparators(raw, 1, <<>>, <<>>))
          IN IF Len(split) > 0 THEN split ELSE <<raw>>

RECURSIVE ReplaceParens(_)
ReplaceParens(s) ==
  IF s = <<>> THEN <<>>
  ELSE IF Head(s) \in {"(", ")"} THEN <<" ", Head(s), " ">> \o ReplaceParens(Tail(s))
  ELSE <<Head(s)>> \o ReplaceParens(Tail(s))

TokenizeExpression(licenseType) ==
  TrimAndFilter(SplitSpaceRuns(ReplaceParens(licenseType), <<>>, <<>>))

\* peek() of an exhausted array.  No token is the empty string.
NullToken == <<>>

PeekIsOperator(token, operator) ==
  token # NullToken /\ ToUpperCase(token) = <<operator>>
IsOperatorToken(token) == PeekIsOperator(token, "AND") \/ PeekIsOperator(token, "OR")

Peek(inputTokens, cursor) ==
  IF cursor < Len(inputTokens) THEN inputTokens[cursor + 1] ELSE NullToken

\* De-duplication that compares the tokens as written.
RECURSIVE DedupeFromExact(_, _, _)
DedupeFromExact(tokens, seen, kept) ==
  IF tokens = <<>> THEN kept
  ELSE IF Head(tokens) \in seen THEN DedupeFromExact(Tail(tokens), seen, kept)
  ELSE DedupeFromExact(Tail(tokens), seen \cup {Head(tokens)}, Append(kept, Head(tokens)))

RECURSIVE DedupeFrom(_, _, _)
DedupeFrom(tokens, seen, kept) ==
  IF tokens = <<>> THEN kept
  ELSE LET normalized == NormalizeLicenseToken(Head(tokens))
       IN IF normalized \in seen THEN DedupeFrom(Tail(tokens), seen, kept)
          ELSE DedupeFrom(Tail(tokens), seen \cup {normalized}, Append(kept, Head(tokens)))
DedupeTokens(tokens) == DedupeFrom(tokens, {}, <<>>)

\* ExpressionNode | null
NullNode == [type |-> "null"]
LicenseNode(token) == [type |-> "license", token |-> token]
AndNode(left, right) == [type |-> "and", left |-> left, right |-> right]
OrNode(left, right) == [type |-> "or", left |-> left, right |-> right]

\* What a parse function leaves behind: its node, the cursor and the
\* detectedTokens list of the enclosing parseLicenseExpression call.
Parsed(n, cursor, detectedTokens) ==
  [node |-> n, cursor |-> cursor, detectedTokens |-> detectedTokens]

\* The while (true) loop of consumeLicenseToken.
RECURSIVE LicenseTokenParts(_, _, _)
LicenseTokenParts(inputTokens, cursor, parts) ==
  LET token == Peek(inputTokens, cursor)
  IN IF \/ token = NullToken
        \/ token = <<"(">>
        \/ token = <<")">>
        \/ PeekIsOperator(token, "AND")
        \/ PeekIsOperator(token, "OR")
     THEN [parts |-> parts, cursor |-> cursor]
     ELSE LicenseTokenParts(inputTokens, cursor + 1, Append(parts, token))

ConsumeLicenseToken(inputTokens, cursor) ==
  LET start == Peek(inputTokens, cursor)
      taken == LicenseTokenParts(inputTokens, cursor + 1, <<start>>)
  IN [token |-> Trim(JoinWithSpace(taken.parts)), cursor |-> taken.cursor]

RECURSIVE ParseOr(_, _, _)
RECURSIVE ParseOrLoop(_, _)
RECURSIVE ParseAnd(_, _, _)
RECURSIVE ParseAndLoop(_, _)
RECURSIVE ParsePrimary(_, _, _)

\* parsePrimary after const nested = parseOr()
ParseNested(inputTokens, nested) ==
  IF nested.node = NullNode \/ Peek(inputTokens, nested.cursor) # <<")">>
  THEN Parsed(NullNode, nested.cursor, nested.detectedTokens)
  ELSE Parsed(nested.node, nested.cursor + 1, nested.detectedTokens)

\* parsePrimary after const licenseToken = consumeLicenseToken()
ParseLicense(license, detectedTokens) ==
  Parsed(LicenseNode(license.token), license.cursor, Append(detectedTokens, license.token))

ParsePrimary(inputTokens, cursor, detectedTokens) ==
  LET token == Peek(inputTokens, cursor)
  IN IF token = NullToken THEN Parsed(NullNode, cursor, detectedTokens)
     ELSE IF token = <<"(">>
     THEN ParseNested(inputTokens, ParseOr(inputTokens, cursor + 1, detectedTokens))
     ELSE IF token = <<")">> \/ IsOperatorToken(token)
     THEN Parsed(NullNode, cursor, detectedTokens)
     ELSE ParseLicense(ConsumeLicenseToken(inputTokens, cursor), detectedTokens)

\* One pass of parseAnd's while loop after const right = parsePrimary()
ParseAndRight(inputTokens, left, right) ==
  IF right.node = NullNode THEN right
  ELSE ParseAndLoop(inputTokens,
                    Parsed(AndNode(left.node, right.node), right.cursor, right.detectedTokens))

ParseAndLoop(inputTokens, left) ==
  IF PeekIsOperator(Peek(inputTokens, left.cursor), "AND")
  THEN ParseAndRight(inputTokens, left,
                     ParsePrimary(inputTokens, left.cursor + 1, left.detectedTokens))
  ELSE left

\* parseAnd after let node = parsePrimary()
ParseAndFirst(inputTokens, first) ==
  IF first.node = NullNode THEN first ELSE ParseAndLoop(inputTokens, first)

ParseAnd(inputTokens, cursor, detectedTokens) ==
  ParseAndFirst(inputTokens, ParsePrimary(inputTokens, cursor, detectedTokens))

\* One pass of parseOr's while loop after const right = parseAnd()
ParseOrRight(inputTokens, left, right) ==
  IF right.node = NullNode THEN right
  ELSE ParseOrLoop(inputTokens,
                   Parsed(OrNode(left.node, right.node), right.cursor, right.detectedTokens))

ParseOrLoop(inputTokens, left) ==
  IF PeekIsOperator(Peek(inputTokens, left.cursor), "OR")
  THEN ParseOrRight(inputTokens, left,
                    ParseAnd(inputTokens, left.cursor + 1, left.detectedTokens))
  ELSE left

\* parseOr after let node = parseAnd()
ParseOrFirst(inputTokens, first) ==
  IF first.node = NullNode THEN first ELSE ParseOrLoop(inputTokens, first)

ParseOr(inputTokens, cursor, detectedTokens) ==
  ParseOrFirst(inputTokens, ParseAnd(inputTokens, cursor, detectedTokens))

\* parseLicenseExpression after const rootNode = parseOr()
ParseRoot(licenseType, inputTokens, rootNode) ==
  IF rootNode.node = NullNode \/ rootNode.cursor < Len(inputTokens)
  THEN [node |-> NullNode, tokens |-> ExtractLicenseTokens(licenseType)]
  ELSE [node |-> rootNode.node, tokens |-> DedupeTokens(rootNode.detectedTokens)]

\* parseLicenseExpression after const inputTokens = tokenizeExpression()
ParseTokens(licenseType, inputTokens) ==
  IF Len(inputTokens) = 0 THEN [node |-> NullNode, tokens |-> <<>>]
  ELSE ParseRoot(licenseType, inputTokens, ParseOr(inputTokens, 0, <<>>))

ParseLicenseExpression(licenseType) ==
  ParseTokens(licenseType, TokenizeExpression(licenseType))

\* A map that keeps the normalized rule as its value.
NormalizedAllowsKeepsKey(rules) ==
  [key \in {NormalizeLicenseToken(rules[i]) : i \in 1..Len(rules)} |-> key]

\* normalizedAllows: the Map auditLicenseEntries builds; a later rule with
\* the same key replaces the earlier one.
NormalizedAllows(rules) ==
  [key \in {NormalizeLicenseToken(rules[i]) : i \in 1..Len(rules)} |->
     LET last == CHOOSE i \in 1..Len(rules) :
                   /\ NormalizeLicenseToken(rules[i]) = key
                   /\ \A j \in (i + 1)..Len(rules) : NormalizeLicenseToken(rules[j]) # key
     IN rules[last]]

\* Map.get of a missing key, and the null of matchedAllowRule.  Neither is a
\* string of the model.
UndefinedRule == <<"undefined">>
NullRule == <<"null">>
MapGet(map, key) == IF key \in DOMAIN map THEN map[key] ELSE UndefinedRule
\* Boolean(matched): undefined and '' are falsy.
Truthy(matched) == matched # UndefinedRule /\ matched # <<>>

Evaluated(allowed, matchedAllowRule) ==
  [allowed |-> allowed, matchedAllowRule |-> matchedAllowRule]

\* case 'license'
EvaluateLicense(matched) ==
  Evaluated(Truthy(matched), IF matched = UndefinedRule THEN NullRule ELSE matched)

\* 'and' that surfaces the left operand's rule whatever the right one gave.
EvaluateAndRightKeepsLeft(left, right) ==
  Evaluated(right.allowed, left.matchedAllowRule)

\* case 'and' after const right = evaluateExpressionNode(node.right)
EvaluateAndRight(left, right) ==
  IF ~right.allowed THEN Evaluated(FALSE, NullRule)
  ELSE Evaluated(TRUE, IF left.matchedAllowRule # NullRule
                       THEN left.matchedAllowRule
                       ELSE right.matchedAllowRule)

RECURSIVE EvaluateExpressionNode(_, _)
\* 'and' decided by either operand, as a flat scan of the tokens would.
EvaluateAndAnyOperand(n, normalizedAllows, left) ==
  IF left.allowed THEN left ELSE EvaluateExpressionNode(n.right, normalizedAllows)

\* case 'and' after const left = evaluateExpressionNode(node.left)
EvaluateAnd(n, normalizedAllows, left) ==
  IF ~left.allowed THEN Evaluated(FALSE, NullRule)
  ELSE EvaluateAndRight(left, EvaluateExpressionNode(n.right, normalizedAllows))

\* case 'or' after const left = evaluateExpressionNode(node.left)
EvaluateOr(n, normalizedAllows, left) ==
  IF left.allowed THEN left ELSE EvaluateExpressionNode(n.right, normalizedAllows)

EvaluateExpressionNode(n, normalizedAllows) ==
  CASE n.type = "license" ->
         EvaluateLicense(MapGet(normalizedAllows, NormalizeLicenseToken(n.token)))
    [] n.type = "and" ->
         EvaluateAnd(n, normalizedAllows, EvaluateExpressionNode(n.left, normalizedAllows))
    [] n.type = "or" ->
         EvaluateOr(n, normalizedAllows, EvaluateExpressionNode(n.left, normalizedAllows))

\* evaluateLicenseExpression after const evaluated = evaluateExpressionNode()
EvaluateParsed(parsed, evaluated) ==
  [allowed |-> evaluated.allowed,
   matchedAllowRule |-> evaluated.matchedAllowRule,
   detectedTokens |-> parsed.tokens]

\* A failed parse whose fragments are looked up in the allow-list one by one.
EvaluateParseMatchesFragments(parsed, normalizedAllows) ==
  IF parsed.node = NullNode
  THEN LET hits == {i \in 1..Len(parsed.tokens) :
                     Truthy(MapGet(normalizedAllows, NormalizeLicenseToken(parsed.tokens[i])))}
       IN IF hits = {}
          THEN [allowed |-> FALSE, matchedAllowRule |-> NullRule,
                detectedTokens |-> parsed.tokens]
          ELSE [allowed |-> TRUE,
                matchedAllowRule |->
                  MapGet(normalizedAllows,
                         NormalizeLicenseToken(parsed.tokens[CHOOSE i \in hits :
                                                               \A j \in hits : i <= j])),
                detectedTokens |-> parsed.tokens]
  ELSE EvaluateParsed(parsed, EvaluateExpressionNode(parsed.node, normalizedAllows))

\* evaluateLicenseExpression after const parsed = parseLicenseExpression()
EvaluateParse(parsed, normalizedAllows) ==
  IF parsed.node = NullNode
  THEN [allowed |-> FALSE, matchedAllowRule |-> NullRule, detectedTokens |-> parsed.tokens]
  ELSE EvaluateParsed(parsed, EvaluateExpressionNode(parsed.node, normalizedAllows))

EvaluateLicenseExpression(licenseType, normalizedAllows) ==
  EvaluateParse(ParseLicenseExpression(licenseType), normalizedAllows)

\* The entry the map callback of auditLicenseEntries returns.
AuditedEntry(entry, evaluation) ==
  [name |-> entry.name, version |-> entry.version,
   licenseType |-> entry.licenseType, url |-> entry.url,
   status |-> IF evaluation.allowed THEN "allowed" ELSE "violation",
   matchedAllowRule |-> evaluation.matchedAllowRule,
   detectedLicenseTokens |-> evaluation.detectedTokens]

AuditEntry(entry, normalizedAllows) ==
  AuditedEntry(entry, EvaluateLicenseExpression(entry.licenseType, normalizedAllows))

AuditLicenseEntries(es, rules) ==
  LET normalizedAllows == NormalizedAllows(rules)
  IN [i \in 1..Len(es) |-> AuditEntry(es[i], normalizedAllows)]

\* A loop that compares the items as written.
RECURSIVE UniqueFromExact(_, _, _)
UniqueFromExact(parsed, seen, kept) ==
  IF parsed = <<>> THEN kept
  ELSE IF Head(parsed) \in seen THEN UniqueFromExact(Tail(parsed), seen, kept)
  ELSE UniqueFromExact(Tail(parsed), seen \cup {Head(parsed)}, Append(kept, Head(parsed)))

RECURSIVE UniqueFrom(_, _, _)
UniqueFrom(parsed, seen, kept) ==
  IF parsed = <<>> THEN kept
  ELSE LET normalized == NormalizeLicenseToken(Head(parsed))
       IN IF normalized \in seen THEN UniqueFrom(Tail(parsed), seen, kept)
          ELSE UniqueFrom(Tail(parsed), seen \cup {normalized}, Append(kept, Head(parsed)))

\* values.flatMap((value) => value.split(','))
RECURSIVE FlatMapSplit(_)
FlatMapSplit(vs) ==
  IF vs = <<>> THEN <<>>
  ELSE SplitOn(",", Head(vs), <<>>, <<>>) \o FlatMapSplit(Tail(vs))

ParseAllowValues(vs) == UniqueFrom(TrimAndFilter(FlatMapSplit(vs)), {}, <<>>)

HasAuditViolations(es) == \E i \in 1..Len(es) : es[i].status = "violation"

\* A filter that keeps every audited entry.
AllAuditEntries(es) == es

RECURSIVE GetAuditViolations(_)
GetAuditViolations(es) ==
  IF es = <<>> THEN <<>>
  ELSE (IF Head(es).status = "violation" THEN <<Head(es)>> ELSE <<>>)
         \o GetAuditViolations(Tail(es))

\* renderLicenseAuditText: one block per entry, '' for no entry.
RenderLicenseAuditText(es) ==
  [i \in 1..Len(es) |->
     [status |-> IF es[i].status = "violation" THEN "VIOLATION" ELSE "ALLOWED",
      name |-> es[i].name, version |-> es[i].version,
      licenseType |-> es[i].licenseType, url |-> es[i].url,
      matchedAllowRule |-> IF es[i].matchedAllowRule = NullRule THEN <<"none">>
                           ELSE es[i].matchedAllowRule]]

(***************************************************************************)
(* urlNormalization.ts.  A URL is a sequence of symbols: the punctuation   *)
(* characters the code looks at (":", "/", "@", "+", "#", "."), the space,  *)
(* and words of other characters ("git", "ssh", "github.com", "7999", ...). *)
(***************************************************************************)
\* The value null of a string | null.
NullUrl == <<"null">>

\* string.startsWith(prefix)
StartsWith(s, prefix) == Len(s) >= Len(prefix) /\ SubSeq(s, 1, Len(prefix)) = prefix

\* string.slice(start), start counted from 1
Slice(s, start) == SubSeq(s, start, Len(s))

\* string.indexOf(c), counted from 1; 0 when c does not occur
IndexOf(s, c) ==
  IF \E i \in 1..Len(s) : s[i] = c
  THEN CHOOSE i \in 1..Len(s) : s[i] = c /\ \A j \in 1..(i - 1) : s[j] # c
  ELSE 0

\* `https://${rest}`
Https(rest) == <<"https", ":", "/", "/">> \o rest

ExtractUrl(in) ==
  IF in.kind = "string" THEN in.url
  ELSE IF in.kind = "object" THEN in.url
  ELSE NullUrl

ToHttps(in) ==
  LET slash == IndexOf(in, "/")
      \* /^([^/@:\s]+)\/([^#\s]+)$/
      githubShortcut ==
        /\ slash > 1 /\ slash < Len(in)
        /\ \A i \in 1..(slash - 1) : in[i] \notin {"@", ":"} /\ ~IsSpace(in[i])
        /\ \A i \in (slash + 1)..Len(in) : in[i] # "#" /\ ~IsSpace(in[i])
      afterGitAt == Slice(in, 3)
      colon == IndexOf(afterGitAt, ":")
      \* /^git@([^:]+):(.+)$/
      sshLike == StartsWith(in, <<"git", "@">>) /\ colon > 1 /\ colon < Len(afterGitAt)
  IN IF githubShortcut THEN Https(<<"github.com", "/">> \o in)
     ELSE IF StartsWith(in, <<"github", ":">>)
       THEN Https(<<"github.com", "/">> \o Slice(in, 3))
     ELSE IF sshLike
       THEN Https(SubSeq(afterGitAt, 1, colon - 1) \o <<"/">> \o Slice(afterGitAt, colon + 1))
     ELSE IF StartsWith(in, <<"ssh", ":", "/", "/", "git", "@">>) THEN Https(Slice(in, 7))
     ELSE IF StartsWith(in, <<"git", ":", "/", "/">>) THEN Https(Slice(in, 5))
     ELSE in

\* A normalizer that strips the suffixes after the fragment is put back.
NormalizeRepositoryUrlJoinsFirst(in) ==
  LET raw == ExtractUrl(in)
      trimmed == Trim(raw)
      hashIndex == IndexOf(trimmed, "#")
      base == IF hashIndex >= 1 THEN SubSeq(trimmed, 1, hashIndex - 1) ELSE trimmed
      fragment == IF hashIndex >= 1 THEN Slice(trimmed, hashIndex) ELSE <<>>
      withoutGitPlus == IF StartsWith(base, <<"git", "+">>) THEN Slice(base, 3) ELSE base
      https == ToHttps(withoutGitPlus) \o fragment
      withoutGitSuffix ==
        IF Len(https) >= 2 /\ https[Len(https) - 1] = "." /\ https[Len(https)] \in {"git", "GIT"}
        THEN SubSeq(https, 1, Len(https) - 2) ELSE https
      withoutTrailingSlash ==
        IF withoutGitSuffix # <<>> /\ withoutGitSuffix[Len(withoutGitSuffix)] = "/"
        THEN SubSeq(withoutGitSuffix, 1, Len(withoutGitSuffix) - 1) ELSE withoutGitSuffix
  IN IF raw = NullUrl \/ raw = <<>> THEN NullUrl
     ELSE IF trimmed = <<>> THEN NullUrl
     ELSE withoutTrailingSlash

NormalizeRepositoryUrl(in) ==
  LET raw == ExtractUrl(in)
      trimmed == Trim(raw)
      hashIndex == IndexOf(trimmed, "#")
      base == IF hashIndex >= 1 THEN SubSeq(trimmed, 1, hashIndex - 1) ELSE trimmed
      fragment == IF hashIndex >= 1 THEN Slice(trimmed, hashIndex) ELSE <<>>
      withoutGitPlus == IF StartsWith(base, <<"git", "+">>) THEN Slice(base, 3) ELSE base
      https == ToHttps(withoutGitPlus)
      \* https.replace(/\.git$/i, '')
      withoutGitSuffix ==
        IF Len(https) >= 2 /\ https[Len(https) - 1] = "." /\ https[Len(https)] \in {"git", "GIT"}
        THEN SubSeq(https, 1, Len(https) - 2) ELSE https
      \* withoutGitSuffix.replace(/\/$/, '')
      withoutTrailingSlash ==
        IF withoutGitSuffix # <<>> /\ withoutGitSuffix[Len(withoutGitSuffix)] = "/"
        THEN SubSeq(withoutGitSuffix, 1, Len(withoutGitSuffix) - 1) ELSE withoutGitSuffix
  IN IF raw = NullUrl \/ raw = <<>> THEN NullUrl
     ELSE IF trimmed = <<>> THEN NullUrl
     ELSE withoutTrailingSlash \o fragment

(***************************************************************************)
(* The values the library functions have before they are called.          *)
(***************************************************************************)
\* Each has the shape of the value the call will put there.
NotAudited == <<[status |-> "not called"]>>
NotParsed == << <<"not called">> >>
NotCalled == <<"not called">>
NoInput == [kind |-> "none", url |-> <<>>]
NoOutput == [written |-> FALSE, to |-> "", entries |-> <<>>]
NoExitCode == -1

AuditIdle ==
  /\ collected = <<>>
  /\ allowRules = <<>>
  /\ auditEntries = NotAudited
  /\ expression = NullNode
AllowIdle == values = <<>> /\ unique = NotParsed
UrlIdle == input = NoInput /\ normalizedUrl = NotCalled /\ passes = 0
CommandIdle ==
  /\ command = "none"
  /\ currentWorkspace = 0
  /\ includeRootDeps = FALSE
  /\ seedWorkspaces = <<>>
  /\ calls = <<>>
  /\ thrown = ""
  /\ stderr = <<>>
  /\ allWorkspaces = FALSE
  /\ workspaceInputs = <<>>
  /\ allow = <<>>
  /\ json = FALSE
  /\ outputOption = ""
  /\ output = NoOutput
  /\ exitCode = NoExitCode
  /\ commandPc = "idle"
LibIdle == AuditIdle /\ AllowIdle /\ UrlIdle /\ CommandIdle

(***************************************************************************)
(* The auditor under any call: licenseType strings written from an         *)
(* expression of the grammar in some layout, and arbitrary short strings.  *)
(***************************************************************************)
\* License tokens an expression is written from.
LeafTokens == {<<"MIT">>, <<"mit">>, <<"GPL", " ", "1.0">>}

\* The expressions with exactly n leaves.
RECURSIVE ExpressionsOf(_)
ExpressionsOf(n) ==
  IF n = 1 THEN {LicenseNode(t) : t \in LeafTokens}
  ELSE UNION {{AndNode(l, r) : l \in ExpressionsOf(k), r \in ExpressionsOf(n - k)}
                \cup {OrNode(l, r) : l \in ExpressionsOf(k), r \in ExpressionsOf(n - k)} :
              k \in 1..(n - 1)}
Expressions(maxLeaves) == UNION {ExpressionsOf(n) : n \in 1..maxLeaves}

\* How an expression is written down: keywords in upper case with single
\* spaces or in lower case with wide whitespace, and every operand in
\* parentheses or only where the grammar needs them.
Layouts == {layout \in [lower : BOOLEAN, wide : BOOLEAN, parens : BOOLEAN] :
              layout.lower = layout.wide}

\* Under Expr := AndExpr (OR AndExpr)*, AndExpr := Primary (AND Primary)*,
\* both left-associative, an operand needs parentheses when it is the right
\* operand and an operator node, or an OR under an AND.
RECURSIVE WriteExpression(_, _)
WriteExpression(n, layout) ==
  LET Gap == IF layout.wide THEN <<" ", "\t">> ELSE <<" ">>
      Keyword == IF n.type = "and"
                 THEN (IF layout.lower THEN <<"and">> ELSE <<"AND">>)
                 ELSE (IF layout.lower THEN <<"or">> ELSE <<"OR">>)
      Token == [i \in 1..Len(n.token) |->
                  IF IsSpace(n.token[i]) THEN Gap ELSE <<n.token[i]>>]
      NeedsParens(side, child) ==
        /\ child.type # "license"
        /\ \/ side = "right"
           \/ n.type = "and" /\ child.type = "or"
      Operand(side, child) ==
        IF layout.parens \/ NeedsParens(side, child)
        THEN (IF layout.wide THEN <<"(", " ">> ELSE <<"(">>)
               \o WriteExpression(child, layout)
               \o (IF layout.wide THEN <<" ", ")">> ELSE <<")">>)
        ELSE WriteExpression(child, layout)
  IN IF n.type = "license"
     THEN IF Len(Token) = 1 THEN Token[1] ELSE Token[1] \o Token[2] \o Token[3]
     ELSE Operand("left", n.left) \o Gap \o Keyword \o Gap \o Operand("right", n.right)
WriteLicenseType(n, layout) ==
  IF layout.wide THEN <<" ">> \o WriteExpression(n, layout) \o <<"\t">>
  ELSE WriteExpression(n, layout)

\* Arbitrary strings: at most MaxLicenseLen symbols, no two words in a row.
LicenseStrings(maxLen) ==
  LET LicenseWords == {"MIT", "GPL", "AND", "or", "WITH"}
      LicenseSymbols == LicenseWords \cup {" ", "(", ")"}
      NoWordPair(s) ==
        \A i \in 1..(Len(s) - 1) :
          ~(s[i] \in LicenseWords /\ s[i + 1] \in LicenseWords)
  IN {s \in SeqsUpTo(LicenseSymbols, maxLen) : NoWordPair(s)}

\* The allow-lists handed to the auditor: as parseAllowValues returns them,
\* and as a direct caller may write them.
AllowLists ==
  { << <<"MIT">> >>,
    << <<"mit">> >>,
    << <<"gpl", " ", " ", "1.0">>, <<"Apache">> >>,
    << <<"MIT">>, <<" ", "mit">>, <<"GPL">> >>,
    << <<>>, <<"MIT", " ", "AND">> >>,
    <<>> }

LicenseEntry(id, licenseType) ==
  [name |-> id, version |-> 1, licenseType |-> licenseType, url |-> 1]

AuditCall(n, licenseType, rules) ==
  /\ expression = n
  /\ collected = <<LicenseEntry(1, licenseType)>>
  /\ allowRules = rules
  /\ auditEntries = NotAudited

AuditInit ==
  /\ \/ \E n \in Expressions(MaxLeaves), layout \in Layouts, rules \in AllowLists :
          AuditCall(n, WriteLicenseType(n, layout), rules)
     \/ \E s \in LicenseStrings(MaxLicenseLen), rules \in AllowLists : AuditCall(NullNode, s, rules)
  /\ AllowIdle /\ UrlIdle /\ CommandIdle

\* const auditEntries = auditLicenseEntries(entries, allowRules)
Audit ==
  /\ auditEntries = NotAudited
  /\ collected # <<>>
  /\ auditEntries' = AuditLicenseEntries(collected, allowRules)
  /\ UNCHANGED <<collectorVars, mapperVars, collected, allowRules, expression,
                 allowVars, urlVars, commandVars>>


(***************************************************************************)
(* parseAllowValues under any call.                                        *)
(***************************************************************************)
\* The --allow values: every way to write at most MaxAllowSymbols symbols and
\* cut them into values ("|" marks the cuts and is no symbol of a value).
AllowValues(maxSymbols) ==
  LET Words == {"MIT", "mit", "GPL"}
      NoWordPair(s) ==
        \A i \in 1..(Len(s) - 1) : ~(s[i] \in Words /\ s[i + 1] \in Words)
  IN {SplitOn("|", s, <<>>, <<>>) :
        s \in {t \in SeqsUpTo(Words \cup {" ", ",", "|"}, maxSymbols) : NoWordPair(t)}}

AllowInit ==
  /\ values \in AllowValues(MaxAllowSymbols)
  /\ unique = NotParsed
  /\ AuditIdle /\ UrlIdle /\ CommandIdle
  /\ CollectorReturned({})
  /\ items = <<>> /\ concurrency = 0 /\ MapperIdle

\* const allowRules = parseAllowValues(this.allow ?? [])
ParseAllow ==
  /\ unique = NotParsed
  /\ unique' = ParseAllowValues(values)
  /\ UNCHANGED <<collectorVars, mapperVars, auditVars, values, urlVars, commandVars>>

AllowSpec == AllowInit /\ [][ParseAllow]_vars

(***************************************************************************)
(* normalizeRepositoryUrl under any call, and called again on its result.  *)
(***************************************************************************)
RECURSIVE GitPlus(_)
GitPlus(k) == IF k = 0 THEN <<>> ELSE <<"git", "+">> \o GitPlus(k - 1)

\* Repository strings of package manifests: surrounding whitespace, git+
\* prefixes, a dialect, a host, a separator, a path, suffixes, a fragment.
UrlStrings(maxGitPlus) ==
  LET Padding == {<<>>, <<" ">>}
      Schemes == {<<>>, <<"https", ":", "/", "/">>, <<"ssh", ":", "/", "/", "git", "@">>,
                  <<"git", ":", "/", "/">>, <<"git", "@">>, <<"github", ":">>}
      Hosts == {<<>>, <<"github.com">>}
      Separators == {<<>>, <<":">>, <<"/">>, <<":", "7999", "/">>}
      Paths == {<<>>, <<"repo">>, <<"org", "/", "repo">>}
      Suffixes == {<<>>, <<".", "git">>, <<"/">>, <<".", "git", "/">>, <<".", "GIT">>,
                   <<".", "git", ".", "git">>}
      Fragments == {<<>>, <<"#">>, <<"#", "main">>, <<"#", "main", ".", "git", "/">>}
  IN {lead \o GitPlus(k) \o scheme \o host \o separator \o path \o suffix \o fragment \o trail :
        lead \in Padding, k \in 0..maxGitPlus, scheme \in Schemes, host \in Hosts,
        separator \in Separators, path \in Paths, suffix \in Suffixes,
        fragment \in Fragments, trail \in Padding}

\* input: unknown -- a string, an object with a string url, an object
\* without one, or anything else.
UrlInputs(maxGitPlus) ==
  {[kind |-> kind, url |-> s] : kind \in {"string", "object"}, s \in UrlStrings(maxGitPlus)}
    \cup {[kind |-> kind, url |-> <<>>] : kind \in {"objectWithoutUrl", "other"}}

UrlInit ==
  /\ input \in UrlInputs(MaxGitPlus)
  /\ normalizedUrl = NotCalled
  /\ passes = 0
  /\ AuditIdle /\ AllowIdle /\ CommandIdle
  /\ CollectorReturned({})
  /\ items = <<>> /\ concurrency = 0 /\ MapperIdle

\* normalizeRepositoryUrl(input)
Normalize ==
  /\ passes = 0
  /\ normalizedUrl' = NormalizeRepositoryUrl(input)
  /\ passes' = 1
  /\ UNCHANGED <<collectorVars, mapperVars, auditVars, allowVars, input, commandVars>>

\* normalizeRepositoryUrl(normalizeRepositoryUrl(input))
Renormalize ==
  /\ passes >= 1 /\ passes < MaxPasses
  /\ normalizedUrl # NullUrl
  /\ input' = [kind |-> "string", url |-> normalizedUrl]
  /\ normalizedUrl' = NormalizeRepositoryUrl(input')
  /\ passes' = passes + 1
  /\ UNCHANGED <<collectorVars, mapperVars, auditVars, allowVars, commandVars>>

UrlSpec == UrlInit /\ [][Normalize \/ Renormalize]_vars

(***************************************************************************)
(* LicensesAuditCommand.execute() under any options and any collected      *)
(* entries.                                                                *)
(***************************************************************************)
\* What collectLicenseEntries can hand to the command: entries with distinct
\* names and a licenseType that is a token, an expression or malformed.
CollectedLists(maxEntries) ==
  LET LicenseTypes == {<<"MIT">>, <<"GPL">>, <<"MIT", " ", "OR", " ", "GPL">>, <<"(", "MIT">>}
  IN UNION {{[i \in 1..n |-> LicenseEntry(i, licenseTypes[i])] :
               licenseTypes \in [1..n -> LicenseTypes]} : n \in 0..maxEntries}

\* The project the commands run in: project.workspaces, the first being
\* project.topLevelWorkspace.  The third has no name in its manifest.
NoName == <<>>
ProjectWorkspaces ==
  <<[name |-> <<"root">>, relativeCwd |-> <<".">>],
    [name |-> <<"app-web">>, relativeCwd |-> <<"packages", "/", "web">>],
    [name |-> NoName, relativeCwd |-> <<"packages", "/", "lib">>]>>
TopLevelWorkspace == 1

\* segments[segments.length - 1] of relativeCwd.split('/')
Basename(relativeCwd) ==
  LET segments == SplitOn("/", relativeCwd, <<>>, <<>>)
  IN segments[Len(segments)]

MatchesWorkspace(workspace, in) ==
  \/ workspace.name # NoName /\ workspace.name = in
  \/ workspace.relativeCwd = in
  \/ Basename(workspace.relativeCwd) = in

\* project.workspaces.find(candidate => matchesWorkspace(candidate, name)):
\* the index of the first match, 0 for undefined.
FindWorkspace(ws, in) ==
  LET matching == {i \in 1..Len(ws) : MatchesWorkspace(ws[i], in)}
  IN IF matching = {} THEN 0
     ELSE CHOOSE i \in matching : \A j \in matching : i <= j

Selected(ws) == [error |-> "", workspaces |-> ws]
SelectionError(message) == [error |-> message, workspaces |-> <<>>]

\* A selection that passes over the names that match no workspace.
SelectWorkspacesFromOptionsSkipsMissing(ws, current, all, inputs) ==
  IF all THEN Selected([i \in 1..Len(ws) |-> i])
  ELSE IF Len(inputs) > 0
    THEN LET found == [k \in 1..Len(inputs) |-> FindWorkspace(ws, inputs[k])]
         IN Selected(SelectSeq(found, LAMBDA i : i # 0))
  ELSE IF current # 0 THEN Selected(<<current>>)
  ELSE SelectionError("No workspace selected")

\* selectWorkspacesFromOptions and LicensesListCommand.selectWorkspaces: the
\* workspaces selected (by index in project.workspaces), or the UsageError.
SelectWorkspacesFromOptions(ws, current, all, inputs) ==
  IF all THEN Selected([i \in 1..Len(ws) |-> i])
  ELSE IF Len(inputs) > 0
    THEN LET found == [k \in 1..Len(inputs) |-> FindWorkspace(ws, inputs[k])]
         IN IF \E k \in 1..Len(inputs) : found[k] = 0
            THEN SelectionError("Workspace not found")
            ELSE Selected(found)
  ELSE IF current # 0 THEN Selected(<<current>>)
  ELSE SelectionError("No workspace selected")

\* dedupeWorkspaces: a workspace is known by its cwd, here its index.
RECURSIVE DedupeWorkspacesFrom(_, _, _)
DedupeWorkspacesFrom(ws, seenCwds, deduped) ==
  IF ws = <<>> THEN deduped
  ELSE IF Head(ws) \in seenCwds THEN DedupeWorkspacesFrom(Tail(ws), seenCwds, deduped)
  ELSE DedupeWorkspacesFrom(Tail(ws), seenCwds \cup {Head(ws)}, Append(deduped, Head(ws)))
DedupeWorkspaces(ws) == DedupeWorkspacesFrom(ws, {}, <<>>)

\* includeRootDeps ? dedupeWorkspaces([...selected, topLevelWorkspace]) : selected
SeedWorkspaces(selected, rootDeps) ==
  IF rootDeps THEN DedupeWorkspaces(Append(selected, TopLevelWorkspace)) ELSE selected

\* renderTextReport: one block per entry, the last under another branch sign;
\* '' for no entry.
RenderTextReport(es) ==
  [i \in 1..Len(es) |->
     [branch |-> IF i = Len(es) THEN "last" ELSE "inner",
      label |-> <<es[i].name, "@", es[i].version>>,
      license |-> es[i].licenseType,
      url |-> es[i].url]]

\* What was written to the output file or to stdout
Written(option, text) ==
  [written |-> TRUE, to |-> IF option # "" THEN option ELSE "stdout", entries |-> text]

\* An onDebugEntry that writes to stdout.
OnDebugEntryToStdout(streams, entry) ==
  [streams EXCEPT !.stdout = Written("", <<entry>>)]

\* onDebugEntry of the list command: the lines go to this.context.stderr.
OnDebugEntry(streams, entry) ==
  [streams EXCEPT !.stderr = Append(@, "debug-package")]

\* The options of a run, for a project whose install state is there.
OptionsInit ==
  /\ currentWorkspace \in {0, 2}
  /\ includeRootDeps \in BOOLEAN
  /\ allWorkspaces \in BOOLEAN
  /\ workspaceInputs \in {<<>>, << <<"app-web">> >>, << <<"lib">>, <<"packages", "/", "web">> >>,
                          << <<"missing">> >>, << <<"app-web">>, <<"missing">> >>}
  /\ json \in BOOLEAN
  /\ outputOption \in {"", "report.txt"}
  /\ seedWorkspaces = <<>>
  /\ calls = <<>>
  /\ thrown = ""
  /\ stderr = <<>>
  /\ output = NoOutput
  /\ exitCode = NoExitCode
  /\ commandPc = "start"
  /\ AuditIdle /\ AllowIdle /\ UrlIdle
  /\ CollectorReturned({})
  /\ items = <<>> /\ concurrency = 0 /\ MapperIdle

\* yarn licenses audit
CommandInit ==
  /\ command = "audit"
  /\ allow \in {<<>>, << <<",", " ">> >>, << <<"MIT">> >>, << <<"mit", ",", "GPL">> >>,
                << <<"GPL">>, <<"Apache">> >>}
  /\ OptionsInit

\* yarn licenses list: there is no --allow.
ListInit ==
  /\ command = "list"
  /\ allow = <<>>
  /\ OptionsInit

\* The two UsageErrors and const allowRules = parseAllowValues(this.allow ?? [])
ValidateOptions ==
  /\ command = "audit" /\ commandPc = "start"
  /\ IF allWorkspaces /\ Len(workspaceInputs) > 0
     THEN commandPc' = "threw" /\ thrown' = "UsageError" /\ UNCHANGED allowRules
     ELSE IF ParseAllowValues(allow) = <<>>
       THEN commandPc' = "threw" /\ thrown' = "UsageError" /\ UNCHANGED allowRules
       ELSE allowRules' = ParseAllowValues(allow) /\ commandPc' = "selecting"
                           /\ UNCHANGED thrown
  /\ UNCHANGED <<collectorVars, mapperVars, collected, auditEntries, expression, allowVars,
                 urlVars, optionVars, seedWorkspaces, calls, stderr, output, exitCode>>

\* The UsageError of the list command.
ListValidateOptions ==
  /\ command = "list" /\ commandPc = "start"
  /\ IF allWorkspaces /\ Len(workspaceInputs) > 0
     THEN commandPc' = "threw" /\ thrown' = "UsageError"
     ELSE commandPc' = "selecting" /\ UNCHANGED thrown
  /\ UNCHANGED <<collectorVars, mapperVars, auditVars, allowVars, urlVars, optionVars,
                 seedWorkspaces, calls, stderr, output, exitCode>>

\* The workspaces are selected and the seeds made; the list command warns on
\* stderr when --recursive-workspaces finds no workspace edge from the seeds.
SelectWorkspaces ==
  /\ commandPc = "selecting"
  /\ LET selection == SelectWorkspacesFromOptions(ProjectWorkspaces, currentWorkspace,
                                                  allWorkspaces, workspaceInputs)
     IN IF selection.error # ""
        THEN /\ commandPc' = "threw" /\ thrown' = "UsageError"
             /\ UNCHANGED <<seedWorkspaces, stderr>>
        ELSE /\ seedWorkspaces' = SeedWorkspaces(selection.workspaces, includeRootDeps)
             /\ \E warns \in BOOLEAN :
                  stderr' = IF command = "list" /\ warns THEN Append(stderr, "warning")
                            ELSE stderr
             /\ commandPc' = "collecting" /\ UNCHANGED thrown
  /\ UNCHANGED <<collectorVars, mapperVars, auditVars, allowVars, urlVars, optionVars,
                 calls, output, exitCode>>

\* The streams once collectLicenseEntries is through: the list command's
\* onDebugEntry may have been called for the --debug-package package.
AfterDebugEntry(debugged) ==
  LET streams == [stdout |-> output, stderr |-> stderr]
  IN IF command = "list" /\ debugged THEN OnDebugEntry(streams, "debug-package")
     ELSE streams

\* const entries = await collectLicenseEntries({...})
CollectEntries ==
  /\ commandPc = "collecting"
  /\ \E es \in CollectedLists(MaxEntries) : collected' = es
  /\ \E debugged \in BOOLEAN :
       /\ output' = AfterDebugEntry(debugged).stdout
       /\ stderr' = AfterDebugEntry(debugged).stderr
  /\ calls' = Append(calls, "collectLicenseEntries")
  /\ commandPc' = IF command = "audit" THEN "auditing" ELSE "rendering"
  /\ UNCHANGED <<collectorVars, mapperVars, allowRules, auditEntries, expression, allowVars,
                 urlVars, optionVars, seedWorkspaces, thrown, exitCode>>

\* await collectLicenseEntries({...}) throws: a metadata lookup failed.
CollectFails ==
  /\ commandPc = "collecting"
  /\ \E debugged \in BOOLEAN :
       /\ output' = AfterDebugEntry(debugged).stdout
       /\ stderr' = AfterDebugEntry(debugged).stderr
  /\ calls' = Append(calls, "collectLicenseEntries")
  /\ thrown' = "Error"
  /\ commandPc' = "threw"
  /\ UNCHANGED <<collectorVars, mapperVars, auditVars, allowVars, urlVars, optionVars,
                 seedWorkspaces, exitCode>>

\* Audit, write the report to the file or to stdout, return the exit code.
Report ==
  /\ commandPc = "auditing"
  /\ auditEntries' = AuditLicenseEntries(collected, allowRules)
  /\ calls' = Append(calls, "auditLicenseEntries")
  /\ output' = Written(outputOption,
                       IF json THEN GetAuditViolations(auditEntries')
                       ELSE RenderLicenseAuditText(GetAuditViolations(auditEntries')))
  /\ exitCode' = IF HasAuditViolations(auditEntries') THEN 1 ELSE 0
  /\ commandPc' = "returned"
  /\ UNCHANGED <<collectorVars, mapperVars, collected, allowRules, expression, allowVars,
                 urlVars, optionVars, seedWorkspaces, thrown, stderr>>

\* The list command writes the entries to the file or to stdout and returns 0.
ListReport ==
  /\ commandPc = "rendering"
  /\ output' = Written(outputOption, IF json THEN collected ELSE RenderTextReport(collected))
  /\ exitCode' = 0
  /\ commandPc' = "returned"
  /\ UNCHANGED <<collectorVars, mapperVars, auditVars, allowVars, urlVars, optionVars,
                 seedWorkspaces, calls, thrown, stderr>>

CommandNext == ValidateOptions \/ SelectWorkspaces \/ CollectEntries \/ CollectFails \/ Report
CommandSpec == CommandInit /\ [][CommandNext]_vars

\* Either command.
ReportingSpec ==
  /\ CommandInit \/ ListInit
  /\ [][CommandNext \/ ListValidateOptions \/ ListReport]_vars

\* The collector alone.
Init == CollectorInit /\ items = <<>> /\ concurrency = 0 /\ MapperIdle /\ LibIdle
Next == CollectorNext
Spec == Init /\ [][Next]_vars

\* The loop runs to its end once started: the call is synchronous.
FairSpec == Init /\ [][Next]_vars /\ WF_vars(Next)

\* mapWithConcurrency alone, under any call.
MapperOnlyInit == MapperInit /\ CollectorReturned({}) /\ LibIdle
MapperSpec == MapperOnlyInit /\ [][MapperNext]_vars

\* The call is made, and a mapper call that is awaited comes back in the end.
MapperFairSpec ==
  /\ MapperOnlyInit /\ [][MapperNext]_vars
  /\ WF_vars(CallMapWithConcurrency)
  /\ WF_vars(NoWorkers)
  /\ WF_vars(\E w \in 1..Len(workers) : MapperReturns(w) \/ MapperThrows(w))

\* The call collectLicenseEntries makes: the items are the locators the
\* collector returned, in the order of the set, and the concurrency is 16.
FetchConcurrency == 16

RECURSIVE Elements(_)
Elements(q) == IF q = <<>> THEN {} ELSE {Head(q)} \cup Elements(Tail(q))

EntriesInit ==
  /\ items \in {q \in SeqsUpTo(ExternalLocators, MaxItems) :
                  Cardinality(Elements(q)) = Len(q)}
  /\ concurrency = 2 * FetchConcurrency
  /\ MapperIdle
  /\ CollectorReturned(Elements(items))
  /\ LibIdle
EntriesSpec == EntriesInit /\ [][MapperNext]_vars

\* auditLicenseEntries alone, under any call.
AuditOnlyInit ==
  /\ AuditInit
  /\ CollectorReturned({})
  /\ items = <<>> /\ concurrency = 0 /\ MapperIdle
AuditSpec == AuditOnlyInit /\ [][Audit]_vars

(***************************************************************************)
(* Properties of the collector.                                            *)
(***************************************************************************)
HasEdge(e) == \E i \in edges : EdgeUniverse[i] = e

\* The external locators the seeds' own (dev-)dependencies resolve to.
DirectExternals(g, seeds, dev) ==
  LET ds == UNION {Elements(ManifestDependencies(g, seeds[i]))
                     \cup (IF dev THEN Elements(ManifestDevDependencies(g, seeds[i]))
                           ELSE {})
                   : i \in 1..Len(seeds)}
  IN {StoredResolutions(d) : d \in {x \in ds : Classify(x) = "external"}}

\* C1: with recursiveWorkspaces and recursiveNpm both false, the returned set
\* is exactly the set of external locators that the seed workspaces' direct
\* dependencies (and dev-dependencies iff includeDev) resolve to.
FirstDepthGuarantee ==
  (pc = "done" /\ ~recursiveWorkspaces /\ ~recursiveNpm)
    => external = DirectExternals(edges, workspaces, includeDev)

\* A call with both flags off and includeDev on has returned the one
\* dev-dependency of its seed, while the graph holds a workspace edge of the
\* seed, a direct external of that workspace and a deeper external that were
\* all left out.
FirstDepthWitness ==
  /\ pc = "done" /\ ~recursiveWorkspaces /\ ~recursiveNpm /\ includeDev
  /\ workspaces = <<2>>
  /\ HasEdge(Edge(W(2), "devDependencies", Descriptor(ExternalLocator(2))))
  /\ HasEdge(Edge(W(2), "dependencies", Descriptor(WorkspaceLocator(1))))
  /\ HasEdge(Edge(W(1), "dependencies", Descriptor(ExternalLocator(1))))
  /\ HasEdge(Edge(ExternalLocator(2), "dependencies", Descriptor(ExternalLocator(1))))
  /\ external = {ExternalLocator(2)}

\* C2: the set returned with recursiveNpm and/or recursiveWorkspaces on is a
\* superset of the set returned for the same graph, seeds and includeDev with
\* any of these flags off.
FlagMonotonicity ==
  pc = "done" =>
    \A rw \in BOOLEAN, rn \in BOOLEAN :
      ((rw => recursiveWorkspaces) /\ (rn => recursiveNpm)) =>
        CollectExternalLocatorHashes(edges, workspaces, includeDev, rw, rn)
          \subseteq external

\* A call with both flags on has returned strictly more than each call with
\* one flag off returns, and those return more than nothing.
FlagMonotonicityWitness ==
  /\ pc = "done" /\ recursiveWorkspaces /\ recursiveNpm
  /\ \A rw \in BOOLEAN, rn \in BOOLEAN :
       ~(rw /\ rn) =>
         LET less == CollectExternalLocatorHashes(edges, workspaces, includeDev, rw, rn)
         IN less # {} /\ less # external

\* C3: the result set never holds a locator for which the workspace
\* membership test succeeds.
ResultHoldsNoWorkspace ==
  \A l \in external : TryWorkspaceByLocator(l) = 0

\* The for-loop of a locator item has just met a dependency that resolves to
\* a workspace, with results already collected.
ResultHoldsNoWorkspaceWitness ==
  /\ node.type = "locator" /\ lastOp = "workspace"
  /\ recursiveWorkspaces /\ external # {}
  /\ queue # <<>> /\ queue[Len(queue)].type = "workspace"

\* C4: a workspace's dependency list is expanded at most once per call, and a
\* workspace item whose cwd was already visited is dropped with the rest of
\* the queue and the result set left as they were.
WorkspaceExpandedOnce ==
  /\ [](\A w \in Workspaces : expansions[Cwd(w)] <= 1)
  /\ [][(/\ pc = "loop" /\ queue # <<>>
          /\ Head(queue).type = "workspace"
          /\ Cwd(Head(queue).ref[2]) \in visitedWorkspaceCwds)
          => (/\ queue' = Tail(queue)
              /\ external' = external
              /\ expansions' = expansions
              /\ pc' = "loop")]_vars

\* A single seed has met itself again through a workspace cycle and was
\* skipped.
WorkspaceExpandedOnceWitness ==
  /\ lastOp = "skipWorkspace" /\ workspaces = <<1>>
  /\ node = WorkspaceItem(1)
  /\ \A w \in Workspaces : expansions[Cwd(w)] = 1

\* C5: the collector terminates: the queue runs empty and the set is returned.
CollectorTerminates == <>(pc = "done" /\ queue = <<>>)

\* A call over a graph with a workspace cycle, an external cycle and a cycle
\* through both, with both recursion flags on, has returned.
CollectorTerminatesWitness ==
  /\ pc = "done" /\ recursiveWorkspaces /\ recursiveNpm
  /\ HasEdge(Edge(W(1), "dependencies", Descriptor(WorkspaceLocator(2))))
  /\ HasEdge(Edge(W(2), "dependencies", Descriptor(WorkspaceLocator(1))))
  /\ HasEdge(Edge(ExternalLocator(1), "dependencies", Descriptor(ExternalLocator(2))))
  /\ HasEdge(Edge(ExternalLocator(2), "dependencies", Descriptor(ExternalLocator(1))))
  /\ HasEdge(Edge(ExternalLocator(2), "dependencies", Descriptor(WorkspaceLocator(1))))
  /\ visitedWorkspaceCwds = {Cwd(w) : w \in Workspaces}
  /\ visitedLocatorHashes = {ExternalLocator(1), ExternalLocator(2)}

\* C6: a descriptor with no resolution, or whose locator has no package
\* record, adds nothing to the result set or the queue, and the for-loop goes
\* on with the next descriptor of the same node.
UnresolvedDescriptorSkipped ==
  [][(/\ pc \in {"workspace", "locator"} /\ descriptors # <<>>
      /\ \/ StoredResolutions(Head(descriptors)) = NoLocator
         \/ ~StoredPackagesHas(StoredResolutions(Head(descriptors))))
      => (/\ external' = external
          /\ queue' = queue
          /\ descriptors' = Tail(descriptors)
          /\ pc' = (IF Tail(descriptors) = <<>> THEN "loop" ELSE pc)
          /\ node' = node)]_vars

\* The for-loop of an external package has skipped a dependency whose package
\* record is missing and has then collected the next dependency.
UnresolvedDescriptorSkippedWitness ==
  /\ lastOp = "external"
  /\ node = LocatorItem(ExternalLocator(1))
  /\ HasEdge(Edge(ExternalLocator(1), "dependencies", Descriptor(PrunedLocator)))
  /\ ExternalLocator(2) \in external
  /\ PrunedLocator \notin external

\* C23: a collector call leaves the project snapshot as it found it: no step
\* changes the dependency and dev-dependency edges of a workspace or of a
\* package record, the workspaces array it was handed or its options; what
\* changes is the call's own queue, visited sets and result set.  (The
\* resolution table and the package store are fixed functions of the model.)
SnapshotUnchanged ==
  [][/\ edges' = edges
     /\ workspaces' = workspaces
     /\ \A w \in Workspaces :
          /\ ManifestDependencies(edges', w) = ManifestDependencies(edges, w)
          /\ ManifestDevDependencies(edges', w) = ManifestDevDependencies(edges, w)
     /\ <<includeDev, recursiveWorkspaces, recursiveNpm>>'
          = <<includeDev, recursiveWorkspaces, recursiveNpm>>]_vars

\* A call over two seeds has returned with both workspaces and two packages
\* visited, and its seed array still holds both seeds.
SnapshotUnchangedWitness ==
  /\ pc = "done" /\ queue = <<>>
  /\ workspaces = <<1, 2>>
  /\ edges # {}
  /\ visitedWorkspaceCwds = {Cwd(1), Cwd(2)}
  /\ Cardinality(visitedLocatorHashes) = 2
  /\ external # {}

IsWorkspaceItem(item) == item.type = "workspace"

SeedCwds == {Cwd(workspaces[i]) : i \in 1..Len(workspaces)}

\* C24: with recursiveWorkspaces off no step puts a workspace item into the
\* queue, whatever recursiveNpm is: the workspace items of the queue are the
\* seeds not yet dequeued, only seeds are ever marked visited, and the
\* dependency list of a workspace that is no seed is never expanded.
NoWorkspaceEnqueuedWithoutFlag ==
  /\ [](~recursiveWorkspaces =>
          /\ visitedWorkspaceCwds \subseteq SeedCwds
          /\ \A w \in Workspaces : Cwd(w) \notin SeedCwds => expansions[Cwd(w)] = 0
          /\ \A i \in 1..Len(queue) :
               IsWorkspaceItem(queue[i]) => Cwd(queue[i].ref[2]) \in SeedCwds)
  /\ [][~recursiveWorkspaces =>
          LET waiting == SelectSeq(queue, IsWorkspaceItem)
          IN \/ SelectSeq(queue', IsWorkspaceItem) = waiting
             \/ /\ waiting # <<>> /\ Head(queue) = Head(waiting)
                /\ SelectSeq(queue', IsWorkspaceItem) = Tail(waiting)]_vars

\* A call with recursiveWorkspaces off and recursiveNpm on has returned: its
\* seed depends on another workspace and on a package that depends on that
\* workspace too, and the other workspace's own dependency was not collected.
NoWorkspaceEnqueuedWithoutFlagWitness ==
  /\ pc = "done" /\ ~recursiveWorkspaces /\ recursiveNpm /\ includeDev
  /\ workspaces = <<2>>
  /\ HasEdge(Edge(W(2), "dependencies", Descriptor(WorkspaceLocator(1))))
  /\ HasEdge(Edge(W(2), "devDependencies", Descriptor(ExternalLocator(2))))
  /\ HasEdge(Edge(ExternalLocator(2), "dependencies", Descriptor(WorkspaceLocator(1))))
  /\ HasEdge(Edge(W(1), "dependencies", Descriptor(ExternalLocator(1))))
  /\ ~HasEdge(Edge(ExternalLocator(2), "dependencies", Descriptor(ExternalLocator(1))))
  /\ visitedWorkspaceCwds = {Cwd(2)}
  /\ external = {ExternalLocator(2)}

\* C25: with recursiveNpm off the queue never holds a locator item: no
\* locator item is ever dequeued, so the test of recursiveNpm in the handling
\* of a locator item is never reached, and the set of visited locators stays
\* empty for the whole call.
NoLocatorItemWithoutFlag ==
  ~recursiveNpm =>
    /\ \A i \in 1..Len(queue) : queue[i].type = "workspace"
    /\ node.type # "locator"
    /\ pc # "locator"
    /\ lastOp \notin {"expandLocator", "skipLocator"}
    /\ visitedLocatorHashes = {}
    /\ \A l \in ExternalLocators : expansions[l] = 0

\* A call with recursiveNpm off and recursiveWorkspaces on has returned a
\* package that has a dependency of its own, without that dependency.
NoLocatorItemWithoutFlagWitness ==
  /\ pc = "done" /\ ~recursiveNpm /\ recursiveWorkspaces
  /\ HasEdge(Edge(ExternalLocator(1), "dependencies", Descriptor(ExternalLocator(2))))
  /\ Cardinality(visitedWorkspaceCwds) = 2
  /\ external = {ExternalLocator(1)}

\* C26: the queue is first in, first out.  It starts as the seeds in the
\* order given; a step leaves it alone, takes its head as the node, or puts
\* one item behind all the items it holds; so the items wait in the order of
\* their depth and none of them is nearer to a seed than the node being
\* expanded.
QueueIsFifo ==
  /\ [](lastOp = "init" =>
          queue = [i \in 1..Len(workspaces) |-> WorkspaceItem(workspaces[i])])
  /\ [][\/ queue' = queue /\ node' = node
        \/ queue # <<>> /\ queue' = Tail(queue) /\ node' = Head(queue)
        \/ /\ Len(queue') = Len(queue) + 1
           /\ SubSeq(queue', 1, Len(queue)) = queue
           /\ node' = node]_vars
  /\ [](/\ Len(depths.queue) = Len(queue)
        /\ \A i \in 1..Len(queue) :
             /\ depths.node <= depths.queue[i]
             /\ \A j \in 1..(i - 1) : depths.queue[j] <= depths.queue[i])

\* Two seeds, the first of which depends on a package with a dependency of
\* its own: the second seed was dequeued before the package, and the
\* package's dependency, two edges from the seed, waits behind it.
QueueIsFifoWitness ==
  /\ workspaces = <<1, 2>>
  /\ recursiveNpm
  /\ node = LocatorItem(ExternalLocator(1))
  /\ visitedWorkspaceCwds = {Cwd(1), Cwd(2)}
  /\ depths.node = 1
  /\ queue # <<>>
  /\ queue[Len(queue)] = LocatorItem(ExternalLocator(2))
  /\ depths.queue[Len(queue)] = 2

\* The locators one resolved dependency edge away from locator l: those its
\* dependencies (a workspace's dev-dependencies too, with dev) resolve to and
\* the package store has a record of.
ResolvedDependencies(g, l, dev) ==
  LET ds == IF l[1] = "workspace"
            THEN Elements(ManifestDependencies(g, l[2]))
                   \cup (IF dev THEN Elements(ManifestDevDependencies(g, l[2])) ELSE {})
            ELSE Elements(PackageDependencies(g, l))
  IN {StoredResolutions(d) : d \in {x \in ds : Classify(x) \in {"workspace", "external"}}}

\* The locators reachable from those of S.
RECURSIVE ReachableFrom(_, _, _)
ReachableFrom(g, S, dev) ==
  LET further == S \cup UNION {ResolvedDependencies(g, l, dev) : l \in S}
  IN IF further = S THEN S ELSE ReachableFrom(g, further, dev)

\* C29: with recursiveNpm and recursiveWorkspaces on, the returned set is
\* exactly the set of external locators reachable from the seeds along
\* resolved dependency edges: none is lost to a visited mark or to a
\* duplicate in the queue, and none that is unreachable is included.
ReturnsReachableExternals ==
  (pc = "done" /\ recursiveNpm /\ recursiveWorkspaces) =>
    external
      = ReachableFrom(edges, {WorkspaceLocator(workspaces[i]) : i \in 1..Len(workspaces)},
                      includeDev)
          \cap ExternalLocators

\* A call with both flags on has returned both packages of a graph in which
\* the second package is reached through the first and through the second
\* workspace's dev-dependencies, a duplicate was skipped on the way, and the
\* first package has a dependency without a package record.
ReturnsReachableExternalsWitness ==
  /\ pc = "done" /\ recursiveNpm /\ recursiveWorkspaces /\ includeDev
  /\ workspaces = <<1>>
  /\ HasEdge(Edge(W(1), "dependencies", Descriptor(WorkspaceLocator(2))))
  /\ HasEdge(Edge(W(2), "devDependencies", Descriptor(ExternalLocator(2))))
  /\ HasEdge(Edge(ExternalLocator(1), "dependencies", Descriptor(ExternalLocator(2))))
  /\ HasEdge(Edge(ExternalLocator(1), "dependencies", Descriptor(PrunedLocator)))
  /\ lastOp = "return"
  /\ node = LocatorItem(ExternalLocator(2))
  /\ external = {ExternalLocator(1), ExternalLocator(2)}

\* C30: the dependencies of an external package are expanded at most once
\* per call, also when the queue holds several locator items of that package:
\* a locator item whose locator was already visited is dropped when it is
\* dequeued, with the rest of the queue, the result set and the visited sets
\* left as they were.
LocatorExpandedOnce ==
  /\ [](\A l \in ExternalLocators \cup {PrunedLocator} : expansions[l] <= 1)
  /\ [][(/\ pc = "loop" /\ queue # <<>>
          /\ Head(queue).type = "locator"
          /\ Head(queue).ref \in visitedLocatorHashes)
          => (/\ queue' = Tail(queue)
              /\ external' = external
              /\ visitedLocatorHashes' = visitedLocatorHashes
              /\ visitedWorkspaceCwds' = visitedWorkspaceCwds
              /\ expansions' = expansions
              /\ pc' = "loop")]_vars

\* The second item of a package, pushed one edge deeper than the first while
\* the first was still waiting, has been dequeued and skipped.
LocatorExpandedOnceWitness ==
  /\ lastOp = "skipLocator"
  /\ node = LocatorItem(ExternalLocator(2))
  /\ depths.node = 2
  /\ expansions[ExternalLocator(2)] = 1
  /\ expansions[ExternalLocator(1)] = 1
  /\ external = {ExternalLocator(1), ExternalLocator(2)}

(***************************************************************************)
(* Properties of mapWithConcurrency and collectLicenseEntries.             *)
(***************************************************************************)
InFlight == {w \in 1..Len(workers) : workers[w].pc = "awaiting"}

\* C7: each index is taken from the cursor by exactly one worker: no index is
\* taken twice, none below the cursor is passed over, no two workers hold
\* the same index, the mapper is invoked at most once per index, and when no
\* mapper call failed every index below items.length has been taken by the
\* time the workers are through.
IndexClaimedOnce ==
  /\ \A i \in Indexes(items) :
       /\ claimCount[i] = (IF i < nextIndex THEN 1 ELSE 0)
       /\ mapperCalls[i] = (IF i < nextIndex /\ items[i + 1] # Undefined THEN 1 ELSE 0)
  /\ \A v \in InFlight, w \in InFlight :
       workers[v].index = workers[w].index => v = w
  /\ (promise = "fulfilled" /\ failures = <<>>) =>
       \A i \in Indexes(items) : claimCount[i] = 1

\* Two workers have shared three items between them, the second item done
\* before the first, and are through.
IndexClaimedOnceWitness ==
  /\ promise = "fulfilled" /\ failures = <<>>
  /\ Len(items) = 3 /\ Len(workers) = 2
  /\ \A i \in Indexes(items) : mapperCalls[i] = 1
  /\ Len(result) = 3 /\ result[1] = Mapper(items[2]) /\ result[1] # Mapper(items[1])

\* C8: the mapper calls started and not yet completed never number more than
\* min(max(1, floor(concurrency)), items.length); a concurrency of 0 or less
\* still gives one worker; no items, no worker and an empty result.
InFlightBounded ==
  LET floor == IF concurrency % 2 = 0 THEN concurrency \div 2
               ELSE (concurrency - 1) \div 2
      atLeastOne == IF floor < 1 THEN 1 ELSE floor
      limit == IF atLeastOne < Len(items) THEN atLeastOne ELSE Len(items)
  IN /\ Cardinality(InFlight) <= limit
     /\ (promise # "notCalled" /\ concurrency <= 0 /\ items # <<>>)
          => Len(workers) = 1
     /\ items = <<>> =>
          /\ workers = <<>> /\ result = <<>> /\ promise # "rejected"
          /\ callerPc = "returned" => entries = <<>>

\* With a concurrency of 2.5 and three items, two mapper calls are in flight
\* while the third item waits for a worker.
InFlightBoundedWitness ==
  /\ concurrency = 5 /\ Len(items) = 3
  /\ Cardinality(InFlight) = 2
  /\ nextIndex = 2

\* C9: once a mapper call has failed, mapWithConcurrency is rejected with the
\* error of the first call that failed, and collectLicenseEntries returns no
\* entries, whatever the workers have appended to result.
MapperFailureAborts ==
  failures # <<>> =>
    /\ promise = "rejected"
    /\ error = failures[1]
    /\ callerPc # "returned"
    /\ entries = NoEntries

\* One lookup has succeeded and its value is in result, another has failed,
\* and collectLicenseEntries has thrown.
MapperFailureAbortsWitness ==
  /\ callerPc = "threw" /\ entries = NoEntries
  /\ result # <<>> /\ failures # <<>>

\* The entries of the items in the order of the items: what mapWithConcurrency
\* returns when the lookups complete in that order.
RECURSIVE MapInOrder(_)
MapInOrder(its) ==
  IF its = <<>> THEN <<>>
  ELSE (IF Head(its) = Undefined \/ Mapper(Head(its)) = Null
        THEN <<>> ELSE <<Mapper(Head(its))>>)
       \o MapInOrder(Tail(its))

\* C10: collectLicenseEntries returns the same ordered list of entries
\* whatever order the lookups complete in: the list it returns when they
\* complete in the order of the items.
DeterministicOutput ==
  callerPc = "returned" => entries = SortEntries(MapInOrder(items))

IsReturned(event) == event[1] = "returned"

\* The values of the mapper calls of a log that returned a value, in the
\* order of the log.
RECURSIVE ValuesReturned(_, _)
ValuesReturned(its, lg) ==
  IF lg = <<>> THEN <<>>
  ELSE (IF IsReturned(Head(lg)) /\ Mapper(its[Head(lg)[2] + 1]) # Null
        THEN <<Mapper(its[Head(lg)[2] + 1])>> ELSE <<>>)
       \o ValuesReturned(its, Tail(lg))

\* C27: if no mapper call fails and every mapper call comes back,
\* mapWithConcurrency is fulfilled in the end; its result then holds, in the
\* order the calls came back (not the order of the items), one value for
\* each item whose call returned a value, and none for the others.
MapperCompletes ==
  /\ ([](failures = <<>>)) => <>(promise = "fulfilled")
  /\ []((promise = "fulfilled" /\ failures = <<>>) =>
          /\ result = ValuesReturned(items, log)
          /\ \A i \in Indexes(items) :
               Cardinality({k \in 1..Len(log) : log[k] = <<"returned", i>>})
                 = (IF items[i + 1] # Undefined THEN 1 ELSE 0)
          /\ Len(result) = Cardinality({i \in Indexes(items) :
                                          /\ items[i + 1] # Undefined
                                          /\ Mapper(items[i + 1]) # Null}))

\* Three items, the second without a package record: the call for the third
\* came back before the call for the first, and the result holds the third's
\* value, then the first's, and nothing for the second.
MapperCompletesWitness ==
  /\ promise = "fulfilled" /\ failures = <<>>
  /\ items = <<ExternalLocator(1), PrunedLocator, ExternalLocator(3)>>
  /\ result = <<Mapper(ExternalLocator(3)), Mapper(ExternalLocator(1))>>

\* C28: a failed mapper call stops its own worker only.  The failed worker
\* takes no further index; a worker that awaits a call after the operation
\* was rejected still gets its value and takes the next index if one is
\* left; and the mapper is invoked at most once per index, so at most
\* items.length times in all.
WorkersOutliveFailure ==
  /\ [](/\ \A i \in Indexes(items) : mapperCalls[i] <= 1
        /\ Cardinality({k \in 1..Len(log) : log[k][1] = "called"}) <= Len(items)
        /\ \A w \in 1..Len(workers) :
             (promise = "rejected" /\ workers[w].pc = "awaiting")
               => ENABLED MapperReturns(w))
  /\ [][/\ \A w \in 1..Len(workers) :
             workers[w].pc = "failed" => workers'[w] = workers[w]
        /\ failures' # failures => nextIndex' = nextIndex /\ mapperCalls' = mapperCalls
        /\ (/\ promise = "rejected" /\ nextIndex < Len(items)
            /\ Len(log') > Len(log) /\ IsReturned(log'[Len(log) + 1]))
             => nextIndex' > nextIndex /\ promise' = "rejected"]_vars

\* The call for the first item has failed, and after that a worker has
\* invoked the mapper for the third item.
WorkersOutliveFailureWitness ==
  /\ promise = "rejected"
  /\ Len(items) = 3
  /\ \E j \in 1..Len(log), k \in 1..Len(log) :
       j < k /\ log[j] = <<"threw", 0>> /\ log[k] = <<"called", 2>>
  /\ workers[1].pc = "failed"

(***************************************************************************)
(* Properties of the license auditor.                                      *)
(***************************************************************************)
\* The words of a string: its unbroken runs of non-whitespace symbols, in
\* upper case.
RECURSIVE WordsFrom(_, _, _)
WordsFrom(s, word, done) ==
  LET closed == IF word = <<>> THEN done ELSE Append(done, word)
  IN IF s = <<>> THEN closed
     ELSE IF IsSpace(Head(s)) THEN WordsFrom(Tail(s), <<>>, closed)
     ELSE WordsFrom(Tail(s), Append(word, UpperSymbol(Head(s))), done)
WordsOf(s) == WordsFrom(s, <<>>, <<>>)

\* Two strings are the same token when case and the amount of whitespace
\* are ignored.
SameToken(a, b) == WordsOf(a) = WordsOf(b)

\* The truth value of an expression under an allow-list.
RECURSIVE Holds(_, _)
Holds(n, rules) ==
  CASE n.type = "license" -> \E i \in 1..Len(rules) : SameToken(n.token, rules[i])
    [] n.type = "and" -> Holds(n.left, rules) /\ Holds(n.right, rules)
    [] n.type = "or" -> Holds(n.left, rules) \/ Holds(n.right, rules)

Audited == auditEntries # NotAudited

\* C11: a license string written from an expression of the grammar (OR
\* looser than AND, both left-associative, parentheses overriding, keywords
\* in any case) is audited as allowed exactly when the expression is true,
\* a leaf being true iff it is the same token as an allow rule, AND iff both
\* operands are true, OR iff at least one is.
AuditorBooleanSemantics ==
  (Audited /\ expression # NullNode) =>
    \A i \in 1..Len(auditEntries) :
      (auditEntries[i].status = "allowed") <=> Holds(expression, allowRules)

\* 'MIT AND GPL 1.0' under the allow-list [MIT] was audited: a violation.
AuditorBooleanSemanticsWitness ==
  /\ Audited
  /\ expression = AndNode(LicenseNode(<<"MIT">>), LicenseNode(<<"GPL", " ", "1.0">>))
  /\ collected[1].licenseType = <<"MIT", " ", "AND", " ", "GPL", " ", "1.0">>
  /\ allowRules = << <<"MIT">> >>
  /\ auditEntries[1].status = "violation"

\* C12: in every entry the auditor returns, for every license string and
\* every allow-list, matchedAllowRule is non-null exactly when the status is
\* allowed.
MatchedRuleIffAllowed ==
  Audited =>
    \A i \in 1..Len(auditEntries) :
      (auditEntries[i].matchedAllowRule # NullRule) <=> (auditEntries[i].status = "allowed")

\* An AND of an allowed and a disallowed operand was audited, and so was an
\* allowed AND: the first carries no rule.
MatchedRuleIffAllowedWitness ==
  /\ Audited
  /\ expression = AndNode(LicenseNode(<<"mit">>), LicenseNode(<<"GPL", " ", "1.0">>))
  /\ allowRules = << <<"MIT">>, <<" ", "mit">>, <<"GPL">> >>
  /\ auditEntries[1].status = "violation"
  /\ auditEntries[1].matchedAllowRule = NullRule

\* The tokens of a string of LicenseStrings: its symbols other than whitespace.
Lexemes(s) == SelectSeq(s, LAMBDA c : ~IsSpace(c))

\* How many parentheses the first k lexemes leave open.
RECURSIVE Depth(_, _)
Depth(lexemes, k) ==
  IF k = 0 THEN 0
  ELSE Depth(lexemes, k - 1)
         + (IF lexemes[k] = "(" THEN 1 ELSE IF lexemes[k] = ")" THEN -1 ELSE 0)

Unbalanced(lexemes) ==
  \/ Depth(lexemes, Len(lexemes)) # 0
  \/ \E k \in 1..Len(lexemes) : Depth(lexemes, k) < 0
TrailingOperator(lexemes) ==
  lexemes # <<>> /\ UpperSymbol(lexemes[Len(lexemes)]) \in {"AND", "OR"}
EmptyGroup(lexemes) ==
  \E k \in 1..(Len(lexemes) - 1) : lexemes[k] = "(" /\ lexemes[k + 1] = ")"
\* parseOr() returned a node and left tokens behind.
LeftUnconsumed(licenseType) ==
  LET inputTokens == TokenizeExpression(licenseType)
      rootNode == ParseOr(inputTokens, 0, <<>>)
  IN rootNode.node # NullNode /\ rootNode.cursor < Len(inputTokens)
Malformed(licenseType) ==
  \/ Unbalanced(Lexemes(licenseType))
  \/ TrailingOperator(Lexemes(licenseType))
  \/ EmptyGroup(Lexemes(licenseType))
  \/ LeftUnconsumed(licenseType)

\* C13: a malformed license string (unbalanced parenthesis, trailing
\* operator, empty parenthesis group, tokens left unconsumed) is audited
\* without a throw as a violation with no matched rule, whatever the
\* allow-list holds, and its detectedLicenseTokens are the fragments of the
\* fallback split; '(MIT' gives ['MIT'].
MalformedIsViolation ==
  (Audited /\ expression = NullNode) =>
    \A i \in 1..Len(auditEntries) :
      /\ Malformed(collected[i].licenseType) =>
           /\ auditEntries[i].status = "violation"
           /\ auditEntries[i].matchedAllowRule = NullRule
           /\ auditEntries[i].detectedLicenseTokens
                = ExtractLicenseTokens(collected[i].licenseType)
      /\ collected[i].licenseType = <<"(", "MIT">> =>
           auditEntries[i].detectedLicenseTokens = << <<"MIT">> >>

\* '(MIT' was audited under the allow-list [MIT].
MalformedIsViolationWitness ==
  /\ Audited
  /\ collected[1].licenseType = <<"(", "MIT">>
  /\ Malformed(collected[1].licenseType)
  /\ allowRules = << <<"MIT">> >>
  /\ auditEntries[1].status = "violation"

\* The leaf tokens of an expression, left to right.
RECURSIVE Leaves(_)
Leaves(n) ==
  IF n.type = "license" THEN <<n.token>> ELSE Leaves(n.left) \o Leaves(n.right)

\* A list without the elements that repeat an earlier one as a token.
FirstSeen(tokens) ==
  LET kept == {i \in 1..Len(tokens) : \A j \in 1..(i - 1) : ~SameToken(tokens[j], tokens[i])}
      Nth(k) == CHOOSE i \in kept : Cardinality({j \in kept : j <= i}) = k
  IN [k \in 1..Cardinality(kept) |-> tokens[Nth(k)]]

\* C14: after a successful parse detectedLicenseTokens lists every leaf
\* token of the expression left to right, those in branches the evaluation
\* never entered included, without the later tokens that equal an earlier
\* one when case and whitespace are ignored, each as first written.
DetectedTokensAreLeaves ==
  (Audited /\ expression # NullNode) =>
    \A i \in 1..Len(auditEntries) :
      auditEntries[i].detectedLicenseTokens = FirstSeen(Leaves(expression))

\* 'MIT OR (mit AND GPL 1.0)' was audited under [MIT]: the right operand
\* was never evaluated and 'mit' repeats 'MIT'.
DetectedTokensAreLeavesWitness ==
  /\ Audited
  /\ expression = OrNode(LicenseNode(<<"MIT">>),
                         AndNode(LicenseNode(<<"mit">>), LicenseNode(<<"GPL", " ", "1.0">>)))
  /\ allowRules = << <<"MIT">> >>
  /\ auditEntries[1].status = "allowed"
  /\ auditEntries[1].detectedLicenseTokens = << <<"MIT">>, <<"GPL", " ", "1.0">> >>

\* C15: a single license token is allowed exactly when some allow rule is
\* the same token up to case and whitespace, and the matchedAllowRule of an
\* allowed entry is one of the allow-list's strings exactly as written there.
MatchIgnoresCaseKeepsRule ==
  Audited =>
    \A i \in 1..Len(auditEntries) :
      /\ expression # NullNode /\ expression.type = "license" =>
           ((auditEntries[i].status = "allowed")
              <=> \E j \in 1..Len(allowRules) : SameToken(allowRules[j], expression.token))
      /\ auditEntries[i].status = "allowed" =>
           \E j \in 1..Len(allowRules) :
             /\ allowRules[j] = auditEntries[i].matchedAllowRule
             /\ expression # NullNode =>
                  \E k \in 1..Len(Leaves(expression)) :
                    SameToken(allowRules[j], Leaves(expression)[k])

\* 'MIT' was audited under the allow-list [mit]: allowed by the rule 'mit'.
MatchIgnoresCaseKeepsRuleWitness ==
  /\ Audited
  /\ expression = LicenseNode(<<"MIT">>)
  /\ allowRules = << <<"mit">> >>
  /\ auditEntries[1].status = "allowed"
  /\ auditEntries[1].matchedAllowRule = <<"mit">>

(***************************************************************************)
(* Properties of parseAllowValues.                                         *)
(***************************************************************************)
\* C16: parseAllowValues returns the comma-separated pieces of its values,
\* trimmed and without the empty ones, keeping of the pieces that are the
\* same rule only the first, in input order: no two rules of the result are
\* the same rule, and parsing the result again returns it unchanged.
ParseAllowValuesFoldsDuplicates ==
  unique # NotParsed =>
    /\ unique = FirstSeen(TrimAndFilter(FlatMapSplit(values)))
    /\ \A i \in 1..Len(unique) :
         /\ unique[i] # <<>> /\ Trim(unique[i]) = unique[i]
         /\ \A k \in 1..Len(unique[i]) : unique[i][k] # ","
         /\ \A j \in 1..(i - 1) : ~SameToken(unique[j], unique[i])
    /\ ParseAllowValues(unique) = unique

\* ['MIT, GPL', 'mit'] was parsed to ['MIT', 'GPL'].
ParseAllowValuesFoldsDuplicatesWitness ==
  /\ values = << <<"MIT", ",", " ", "GPL">>, <<"mit">> >>
  /\ unique = << <<"MIT">>, <<"GPL">> >>

(***************************************************************************)
(* Properties of normalizeRepositoryUrl.                                   *)
(***************************************************************************)
\* C17: whenever normalizeRepositoryUrl returns a string, applying it to that
\* string returns the same string.
CanonicalizerIdempotent ==
  (passes >= 1 /\ normalizedUrl # NullUrl) =>
    NormalizeRepositoryUrl([kind |-> "string", url |-> normalizedUrl]) = normalizedUrl

\* ssh://git@host:X/path with a word after X/
SshColonForm(s) ==
  /\ Len(s) >= 11
  /\ SubSeq(s, 1, 6) = <<"ssh", ":", "/", "/", "git", "@">>
  /\ s[7] = "github.com" /\ s[8] = ":"
  /\ s[9] \in {"7999", "org"} /\ s[10] = "/"
  /\ s[11] \in {"org", "repo"}

\* C18: for ssh://git@host:X/path the result keeps the colon when X is a
\* numeric port and has a "/" in its place when X is not numeric.
SshColonKeptOnlyForPort ==
  (passes = 1 /\ input.kind = "string" /\ SshColonForm(input.url)) =>
    StartsWith(normalizedUrl,
               Https(<<input.url[7], IF input.url[9] = "7999" THEN ":" ELSE "/",
                       input.url[9], "/", input.url[11]>>))

\* C19: the result ends with everything from the first "#" of the trimmed
\* input, as written, and the part in front of it is the result for the input
\* without that fragment.
FragmentCarriedVerbatim ==
  (passes = 1 /\ normalizedUrl # NullUrl) =>
    LET trimmed == Trim(input.url)
        hashIndex == IndexOf(trimmed, "#")
        base == IF hashIndex >= 1 THEN SubSeq(trimmed, 1, hashIndex - 1) ELSE trimmed
        fragment == IF hashIndex >= 1 THEN Slice(trimmed, hashIndex) ELSE <<>>
        kept == Len(normalizedUrl) - Len(fragment)
    IN /\ kept >= 0
       /\ Slice(normalizedUrl, kept + 1) = fragment
       /\ IndexOf(SubSeq(normalizedUrl, 1, kept), "#") = 0
       /\ base = <<>> => kept = 0
       /\ base # <<>> =>
            SubSeq(normalizedUrl, 1, kept)
              = NormalizeRepositoryUrl([kind |-> "string", url |-> base])

\* 'git+ssh://git@github.com/org/repo.git#main' gave
\* 'https://github.com/org/repo#main'.
FragmentCarriedVerbatimWitness ==
  /\ passes = 1
  /\ input = [kind |-> "string",
              url |-> <<"git", "+", "ssh", ":", "/", "/", "git", "@", "github.com", "/",
                        "org", "/", "repo", ".", "git", "#", "main">>]
  /\ normalizedUrl = <<"https", ":", "/", "/", "github.com", "/", "org", "/", "repo",
                       "#", "main">>

(***************************************************************************)
(* Properties of the audit command.                                        *)
(***************************************************************************)
IsViolation(entry) == entry.status = "violation"

\* The packages and licenses of a list of entries, in order.
Subjects(es) ==
  [i \in 1..Len(es) |->
     [name |-> es[i].name, version |-> es[i].version, licenseType |-> es[i].licenseType]]

\* C20: the report the audit command emits holds exactly the audited entries
\* with status violation, in audited order, and no allowed entry; the exit
\* code is 1 when some audited entry is a violation and 0 otherwise, that is,
\* 1 exactly when the report is not empty.
ReportIsTheViolations ==
  commandPc = "returned" =>
    /\ output.written
    /\ Subjects(output.entries) = Subjects(SelectSeq(auditEntries, IsViolation))
    /\ \A i \in 1..Len(output.entries) :
         output.entries[i].status \in {"violation", "VIOLATION"}
    /\ exitCode = IF \E i \in 1..Len(auditEntries) : IsViolation(auditEntries[i])
                  THEN 1 ELSE 0
    /\ exitCode = 1 <=> output.entries # <<>>

\* Three entries were audited, the first and the last allowed, and the text
\* report holds the second only.
ReportIsTheViolationsWitness ==
  /\ commandPc = "returned"
  /\ ~json
  /\ Len(auditEntries) = 3
  /\ auditEntries[1].status = "allowed"
  /\ auditEntries[2].status = "violation"
  /\ auditEntries[3].status = "allowed"
  /\ Len(output.entries) = 1
  /\ output.entries[1].name = 2
  /\ exitCode = 1

(***************************************************************************)
(* Properties of the commands.                                             *)
(***************************************************************************)
\* The allow-list parses to nothing, both workspace options are given, or a
\* name given with --workspace is the name, the path or the last path
\* segment of no workspace of the project.
InvalidConfiguration ==
  \/ ParseAllowValues(allow) = <<>>
  \/ allWorkspaces /\ workspaceInputs # <<>>
  \/ \E k \in 1..Len(workspaceInputs) :
       \A i \in 1..Len(ProjectWorkspaces) :
         /\ ProjectWorkspaces[i].name # workspaceInputs[k]
         /\ ProjectWorkspaces[i].relativeCwd # workspaceInputs[k]
         /\ \/ Len(workspaceInputs[k]) # 1
            \/ workspaceInputs[k][1]
                 # ProjectWorkspaces[i].relativeCwd[Len(ProjectWorkspaces[i].relativeCwd)]

\* C21: the audit command under an invalid configuration (empty parsed
\* allow-list, --all-workspaces with --workspace, a --workspace name that
\* matches no workspace) never invokes collectLicenseEntries or
\* auditLicenseEntries and never returns: it goes on until it fails, and
\* what it fails with is a usage error.
InvalidConfigurationRejected ==
  (command = "audit" /\ InvalidConfiguration) =>
    /\ calls = <<>>
    /\ commandPc \in {"start", "selecting", "threw"}
    /\ commandPc = "threw" => thrown = "UsageError"
    /\ commandPc # "threw" => ENABLED (ValidateOptions \/ SelectWorkspaces)
    /\ collected = <<>> /\ auditEntries = NotAudited

\* The allow-list is good and the first name is the name of a workspace, but
\* the second name matches none: the command has failed in the selection.
InvalidConfigurationRejectedWitness ==
  /\ command = "audit" /\ commandPc = "threw" /\ thrown = "UsageError"
  /\ ~allWorkspaces
  /\ workspaceInputs = << <<"app-web">>, <<"missing">> >>
  /\ allowRules # <<>>
  /\ calls = <<>>

\* C22: either command writes to the output file or to stdout only once
\* collectLicenseEntries has come back with the entries; a command that
\* failed, on a metadata lookup or on its configuration, has written nothing
\* there.
ReportAfterCollection ==
  /\ [](/\ commandPc = "threw" => output = NoOutput
        /\ output # NoOutput =>
             /\ commandPc = "returned" /\ thrown = ""
             /\ calls # <<>> /\ calls[1] = "collectLicenseEntries"
             /\ output.entries = (IF command = "audit"
                                  THEN IF json THEN GetAuditViolations(auditEntries)
                                       ELSE RenderLicenseAuditText(GetAuditViolations(auditEntries))
                                  ELSE IF json THEN collected
                                       ELSE RenderTextReport(collected)))
  /\ [][output' # output => commandPc \in {"auditing", "rendering"}]_vars

\* The list command has failed on a metadata lookup after the debug lines of
\* a package were written: they are on stderr, and nothing is on stdout or in
\* the file.
ReportAfterCollectionWitness ==
  /\ command = "list" /\ commandPc = "threw" /\ thrown = "Error"
  /\ calls = <<"collectLicenseEntries">>
  /\ stderr # <<>> /\ stderr[Len(stderr)] = "debug-package"
  /\ output = NoOutput

====
